---------------------------- MODULE Spec2Model ----------------------------
(***************************************************************************)
(* A model of the scoring / aggregation engine of Project Oracle           *)
(* (multibagger.py, pillar1_fundamental.py, pillar2_technical.py,          *)
(* pillar3_sentiment.py, market_scanner.py).                               *)
(*                                                                         *)
(* Representation of the data the code reads                               *)
(*   - an attribute of the info mapping is an option: <<>> when the key    *)
(*     is missing from the mapping, <<v>> when it is present with value v; *)
(*   - an indicator that pandas yields as NaN is the option <<>>;          *)
(*   - marketCap is in units of 1e6 USD (500 = 0.5B USD);                   *)
(*   - fractions (growth rates, margins, returns, ownership, yield,        *)
(*     payout) are in units of 0.01 (15 = 0.15 = 15%);                      *)
(*   - pegRatio, priceToBook, priceToSales, currentRatio, quickRatio and   *)
(*     the volume ratios are in units of 0.1 (15 = 1.5);                    *)
(*   - trailingPE, debtToEquity, RSI are in their own units;               *)
(*   - the price history is carried by its length and by the quantities    *)
(*     the code derives from it (momentum, RSI, price relative to its      *)
(*     moving averages, volume ratio, volatility), all integers in %.      *)
(* Scores are whole points, except the catalyst score, which is carried in *)
(* half points (a sector boost of 1.5 contributes 22.5 points), and the    *)
(* multibagger composite, which is carried in 1/200 of a point.            *)
(***************************************************************************)
EXTENDS Integers, Sequences, FiniteSets, TLC

VARIABLES
    call,       \* the pending / completed application of one pure function
    hunter,     \* MultibaggerHunter instance: [min_score, indonesian_themes]
    market,     \* the data source: ticker -> snapshot
    scanner,    \* which batch scan is running
    tickers,    \* the list handed to the scan
    idx,        \* number of list elements the scan loop has consumed
    analysed,   \* the tickers the per-ticker analysis was called on, in order
    results,    \* the scan's accumulator (results / candidates)
    param,      \* the scan's other argument: top_n, limit, or whether OracleEngine imports
    pc,         \* position of the scan: "loop", "done"
    output      \* the value the scan returned

vars == <<call, hunter, market, scanner, tickers, param, idx, analysed, results, pc, output>>

----------------------------------------------------------------------------
(* Options, NaN and Python truthiness *)

Absent == <<>>

Some(v) == <<v>>

\* dict.get(key, default) with a non-None default
Get(opt, default) == IF opt = Absent THEN default ELSE opt[1]

\* `if x:` for x = dict.get(key, None): None and 0 are falsy
Truthy(opt) == opt # Absent /\ opt[1] # 0

Min(a, b) == IF a <= b THEN a ELSE b

Max(a, b) == IF a >= b THEN a ELSE b
\* Clamp without its bounds
Clamp_unbounded(score) == score

\* max(0, min(100, score))
Clamp(score) == Max(0, Min(100, score))

----------------------------------------------------------------------------
(* MultibaggerHunter.__init__ *)
\* a stricter threshold
min_score_strict == 70 + 25
\* a threshold below the lowest rung of the return table
min_score_lax == 70 - 20

min_score == 70

indonesian_themes ==
    [s \in {"Mining", "Energy", "Technology", "Consumer Cyclical",
            "Financial Services", "Industrials", "Basic Materials"} |->
        CASE s = "Mining" -> 4              \* 2.0
          [] s = "Energy" -> 3              \* 1.5
          [] s = "Technology" -> 4          \* 2.0
          [] s = "Consumer Cyclical" -> 3   \* 1.5
          [] s = "Financial Services" -> 2  \* 1.0
          [] s = "Industrials" -> 3         \* 1.5
          [] s = "Basic Materials" -> 3]    \* 1.5

NewHunter == [min_score |-> min_score, indonesian_themes |-> indonesian_themes]

----------------------------------------------------------------------------
(* MultibaggerHunter component scorers *)
\* calculate_size_score with the 0.5B boundary on the wrong side
calculate_size_score_boundary(info) ==
    LET mcap == Get(info.marketCap, 0) IN
    IF mcap = 0 THEN 0
    ELSE IF mcap <= 500 THEN 40
    ELSE IF mcap < 1000 THEN 100
    ELSE IF mcap < 3000 THEN 85
    ELSE IF mcap < 5000 THEN 70
    ELSE IF mcap < 10000 THEN 50
    ELSE 30

calculate_size_score(info) ==
    LET mcap == Get(info.marketCap, 0) IN
    IF mcap = 0 THEN 0
    ELSE IF mcap < 500 THEN 40
    ELSE IF mcap < 1000 THEN 100
    ELSE IF mcap < 3000 THEN 85
    ELSE IF mcap < 5000 THEN 70
    ELSE IF mcap < 10000 THEN 50
    ELSE 30

\* the points of the rules, before the final min
calculate_growth_points(info) ==
    LET rev_growth == Get(info.revenueGrowth, 0)
        earnings_growth == Get(info.earningsGrowth, 0)
        q_rev_growth == Get(info.revenueQuarterlyGrowth, 0)
        s1 == IF rev_growth # 0
              THEN IF rev_growth > 50 THEN 35
                   ELSE IF rev_growth > 30 THEN 40
                   ELSE IF rev_growth > 20 THEN 35
                   ELSE IF rev_growth > 10 THEN 20
                   ELSE 5
              ELSE 0
        s2 == IF earnings_growth # 0
              THEN IF earnings_growth > 40 THEN 40
                   ELSE IF earnings_growth > 25 THEN 35
                   ELSE IF earnings_growth > 15 THEN 25
                   ELSE 10
              ELSE 0
        s3 == IF q_rev_growth # 0 /\ q_rev_growth > 20 THEN 20 ELSE 0
    IN s1 + s2 + s3
\* the growth score capped at 90
calculate_growth_score_capped(info) == Min(calculate_growth_points(info), 90)

calculate_growth_score(info) == Min(calculate_growth_points(info), 100)

\* the points of the rules, before the final min
calculate_valuation_points(info) ==
    LET peg == info.pegRatio
        pe == info.trailingPE
        pb == info.priceToBook
        s1 == IF Truthy(peg)
              THEN IF 0 < peg[1] /\ peg[1] < 5 THEN 50
                   ELSE IF peg[1] < 10 THEN 45
                   ELSE IF peg[1] < 15 THEN 35
                   ELSE IF peg[1] < 20 THEN 25
                   ELSE 10
              ELSE 20
        s2 == IF Truthy(pe)
              THEN IF 5 < pe[1] /\ pe[1] < 15 THEN 30
                   ELSE IF 15 <= pe[1] /\ pe[1] < 25 THEN 25
                   ELSE IF 25 <= pe[1] /\ pe[1] < 40 THEN 15
                   ELSE 5
              ELSE 0
        s3 == IF Truthy(pb) /\ 0 < pb[1] /\ pb[1] < 30 THEN 20 ELSE 0
    IN s1 + s2 + s3

calculate_valuation_score(info) == Min(calculate_valuation_points(info), 100)

\* the points of the rules, before the final min
calculate_quality_points(info) ==
    LET profit_margin == Get(info.profitMargins, 0)
        roe == Get(info.returnOnEquity, 0)
        debt_to_equity == Get(info.debtToEquity, 0)
        current_ratio == Get(info.currentRatio, 0)
        s1 == IF profit_margin # 0
              THEN IF profit_margin > 20 THEN 25
                   ELSE IF profit_margin > 10 THEN 20
                   ELSE IF profit_margin > 5 THEN 15
                   ELSE 5
              ELSE 0
        s2 == IF roe # 0
              THEN IF roe > 25 THEN 25
                   ELSE IF roe > 15 THEN 20
                   ELSE IF roe > 10 THEN 15
                   ELSE 5
              ELSE 0
        s3 == IF debt_to_equity # 0
              THEN IF debt_to_equity < 30 THEN 25
                   ELSE IF debt_to_equity < 50 THEN 20
                   ELSE IF debt_to_equity < 100 THEN 15
                   ELSE 5
              ELSE 20
        s4 == IF current_ratio # 0
              THEN IF current_ratio > 20 THEN 15
                   ELSE IF current_ratio > 15 THEN 12
                   ELSE IF current_ratio > 10 THEN 8
                   ELSE 0
              ELSE 0
        s5 == IF Get(info.operatingCashflow, 0) > 0 THEN 10 ELSE 0
    IN s1 + s2 + s3 + s4 + s5

calculate_quality_score(info) == Min(calculate_quality_points(info), 100)

\* In half points.  hist.volume_ratio is recent_volume / avg_volume in units of
\* 0.1, or <<>> when avg_volume > 0 fails.
\* the points of the rules, before the final min
calculate_catalyst_points(h, info, hist) ==
    LET s1 == IF hist.volume_ratio # Absent
              THEN IF hist.volume_ratio[1] > 30 THEN 30
                   ELSE IF hist.volume_ratio[1] > 20 THEN 20
                   ELSE IF hist.volume_ratio[1] > 15 THEN 10
                   ELSE 0
              ELSE 0
        sector == Get(info.sector, "")
        sector_boost == IF sector \in DOMAIN h.indonesian_themes
                        THEN h.indonesian_themes[sector] ELSE 0
        insider_pct == Get(info.heldPercentInsiders, 0)
        s3 == IF insider_pct # 0
              THEN IF insider_pct > 30 THEN 20
                   ELSE IF insider_pct > 20 THEN 15
                   ELSE IF insider_pct > 10 THEN 10
                   ELSE 0
              ELSE 0
        inst_pct == Get(info.heldPercentInstitutions, 0)
        s4 == IF inst_pct # 0
              THEN IF inst_pct < 30 THEN 15
                   ELSE IF inst_pct < 50 THEN 10
                   ELSE 0
              ELSE 0
        rev_growth == Get(info.revenueGrowth, 0)
        s5 == IF rev_growth # 0 /\ rev_growth > 50 THEN 20 ELSE 0
    IN 2 * s1 + sector_boost * 15 + 2 * s3 + 2 * s4 + 2 * s5

calculate_catalyst_score(h, info, hist) == Min(calculate_catalyst_points(h, info, hist), 2 * 100)
\* the 6-month rule applied whatever the length of the history
calculate_momentum_score_unguarded(hist) ==
    IF hist.len < 50 THEN 0
    ELSE
    LET s1 == IF hist.len >= 50
              THEN IF hist.momentum_6m > 50 THEN 30
                   ELSE IF hist.momentum_6m > 25 THEN 25
                   ELSE IF hist.momentum_6m > 10 THEN 20
                   ELSE IF hist.momentum_6m > 0 THEN 10
                   ELSE 0
              ELSE 0
        s2 == IF hist.len >= 63
              THEN IF hist.momentum_3m > 30 THEN 25
                   ELSE IF hist.momentum_3m > 15 THEN 20
                   ELSE IF hist.momentum_3m > 5 THEN 15
                   ELSE 0
              ELSE 0
        s3 == IF hist.rsi # Absent
              THEN IF 40 <= hist.rsi[1] /\ hist.rsi[1] <= 70 THEN 20
                   ELSE IF 30 <= hist.rsi[1] /\ hist.rsi[1] < 40 THEN 15
                   ELSE 0
              ELSE 0
        s4 == IF hist.price_vs_ma50 > 100 THEN 15 ELSE 0
        s5 == IF hist.len >= 200 /\ hist.price_vs_ma200 > 100 THEN 10 ELSE 0
    IN Min(s1 + s2 + s3 + s4 + s5, 100)

\* hist.len is len(hist); momentum_6m / momentum_3m are read only when the
\* history is long enough; hist.rsi is <<>> when the RSI is NaN; price_vs_ma50
\* and price_vs_ma200 are current_price as a percentage of the moving average.
\* the points of the rules, before the final min
calculate_momentum_points(hist) ==
    IF hist.len < 50 THEN 0
    ELSE
    LET s1 == IF hist.len >= 126
              THEN IF hist.momentum_6m > 50 THEN 30
                   ELSE IF hist.momentum_6m > 25 THEN 25
                   ELSE IF hist.momentum_6m > 10 THEN 20
                   ELSE IF hist.momentum_6m > 0 THEN 10
                   ELSE 0
              ELSE 0
        s2 == IF hist.len >= 63
              THEN IF hist.momentum_3m > 30 THEN 25
                   ELSE IF hist.momentum_3m > 15 THEN 20
                   ELSE IF hist.momentum_3m > 5 THEN 15
                   ELSE 0
              ELSE 0
        s3 == IF hist.rsi # Absent
              THEN IF 40 <= hist.rsi[1] /\ hist.rsi[1] <= 70 THEN 20
                   ELSE IF 30 <= hist.rsi[1] /\ hist.rsi[1] < 40 THEN 15
                   ELSE 0
              ELSE 0
        s4 == IF hist.price_vs_ma50 > 100 THEN 15 ELSE 0
        s5 == IF hist.len >= 200 /\ hist.price_vs_ma200 > 100 THEN 10 ELSE 0
    IN s1 + s2 + s3 + s4 + s5

calculate_momentum_score(hist) == Min(calculate_momentum_points(hist), 100)

----------------------------------------------------------------------------
(* Catalyst & risk detector *)

detect_catalysts(h, info, hist) ==
    LET rev_growth == Get(info.revenueGrowth, 0)
        sector == Get(info.sector, "")
        peg == info.pegRatio
        insider_pct == Get(info.heldPercentInsiders, 0)
        mcap == Get(info.marketCap, 0)
        c1 == IF hist.volume_ratio # Absent /\ hist.volume_ratio[1] > 25
              THEN <<"UNUSUAL_VOLUME">> ELSE <<>>
        c2 == IF rev_growth # 0 /\ rev_growth > 40
              THEN <<"EXPLOSIVE_GROWTH">> ELSE <<>>
        c3 == IF sector \in DOMAIN h.indonesian_themes /\ h.indonesian_themes[sector] >= 3
              THEN <<"HOT_SECTOR">> ELSE <<>>
        c4 == IF hist.len >= 126 /\ hist.momentum_6m > 30
              THEN <<"STRONG_MOMENTUM">> ELSE <<>>
        c5 == IF Truthy(peg) /\ 0 < peg[1] /\ peg[1] < 10
              THEN <<"UNDERVALUED_GROWTH">> ELSE <<>>
        c6 == IF insider_pct # 0 /\ insider_pct > 25
              THEN <<"HIGH_INSIDER_OWNERSHIP">> ELSE <<>>
        c7 == IF mcap < 2000 /\ rev_growth # 0 /\ rev_growth > 25
              THEN <<"SMALL_CAP_GROWTH">> ELSE <<>>
        c8 == IF hist.len >= 50 /\ hist.price_vs_ma50 > 105
              THEN <<"TECHNICAL_BREAKOUT">> ELSE <<>>
    IN c1 \o c2 \o c3 \o c4 \o c5 \o c6 \o c7 \o c8

\* Market cap risk
risk_market_cap(info) ==
    LET mcap == Get(info.marketCap, 0) IN
    IF mcap < 500 THEN 3
    ELSE IF mcap < 2000 THEN 2
    ELSE IF mcap < 5000 THEN 1
    ELSE 0

\* Debt risk
risk_debt(info) ==
    LET debt_to_equity == Get(info.debtToEquity, 0) IN
    IF debt_to_equity # 0 /\ debt_to_equity > 100 THEN 2
    ELSE IF debt_to_equity # 0 /\ debt_to_equity > 50 THEN 1
    ELSE 0

\* Profitability risk
risk_profitability(info) ==
    LET profit_margin == Get(info.profitMargins, 0) IN
    IF profit_margin # 0 /\ profit_margin < 0 THEN 3
    ELSE IF profit_margin # 0 /\ profit_margin < 5 THEN 2
    ELSE 0

\* Volatility risk; hist.volatility is the annualised volatility in %
risk_volatility(hist) ==
    IF hist.len >= 30
    THEN IF hist.volatility > 60 THEN 2
         ELSE IF hist.volatility > 40 THEN 1
         ELSE 0
    ELSE 0

risk_points(info, hist) ==
    risk_market_cap(info) + risk_debt(info) + risk_profitability(info)
        + risk_volatility(hist)
\* risk_level with VERY_HIGH starting one point late
risk_level_late(points) ==
    IF points >= 7 THEN "VERY_HIGH"
    ELSE IF points >= 4 THEN "HIGH"
    ELSE IF points >= 2 THEN "MEDIUM"
    ELSE "LOW"

risk_level(points) ==
    IF points >= 6 THEN "VERY_HIGH"
    ELSE IF points >= 4 THEN "HIGH"
    ELSE IF points >= 2 THEN "MEDIUM"
    ELSE "LOW"

assess_risk(info, hist) == risk_level(risk_points(info, hist))
\* estimate_return_potential deciding on the score alone
estimate_return_potential_score_only(score, num_catalysts) ==
    IF score >= 85 * 200 THEN "500-1000%+ (10-bagger potential)"
    ELSE IF score >= 80 * 200 THEN "300-500% (4-6 bagger)"
    ELSE IF score >= 75 * 200 THEN "200-300% (3-4 bagger)"
    ELSE IF score >= 70 * 200 THEN "100-200% (2-3 bagger)"
    ELSE "50-100% (modest multibagger)"

\* estimate_return_potential without the catalyst-free 70 rung
estimate_return_potential_no_rung(score, num_catalysts) ==
    IF score >= 85 * 200 /\ num_catalysts >= 4 THEN "500-1000%+ (10-bagger potential)"
    ELSE IF score >= 80 * 200 /\ num_catalysts >= 3 THEN "300-500% (4-6 bagger)"
    ELSE IF score >= 75 * 200 /\ num_catalysts >= 2 THEN "200-300% (3-4 bagger)"
    ELSE "50-100% (modest multibagger)"

\* score is the unrounded composite in 1/200 of a point
estimate_return_potential(score, num_catalysts) ==
    IF score >= 85 * 200 /\ num_catalysts >= 4 THEN "500-1000%+ (10-bagger potential)"
    ELSE IF score >= 80 * 200 /\ num_catalysts >= 3 THEN "300-500% (4-6 bagger)"
    ELSE IF score >= 75 * 200 /\ num_catalysts >= 2 THEN "200-300% (3-4 bagger)"
    ELSE IF score >= 70 * 200 THEN "100-200% (2-3 bagger)"
    ELSE "50-100% (modest multibagger)"

----------------------------------------------------------------------------
(* Composite of the multibagger pillar *)
\* multibagger_composite with growth weighted 0.30
multibagger_composite_heavy(size, growth, valuation, quality, catalyst2, momentum) ==
    2 * (size * 20 + growth * 30 + valuation * 15 + quality * 15 + momentum * 10)
        + catalyst2 * 15

\* size*0.20 + growth*0.25 + valuation*0.15 + quality*0.15 + catalyst*0.15
\* + momentum*0.10, in 1/200 of a point (catalyst2 is in half points)
multibagger_composite(size, growth, valuation, quality, catalyst2, momentum) ==
    2 * (size * 20 + growth * 25 + valuation * 15 + quality * 15 + momentum * 10)
        + catalyst2 * 15

\* round(x, 2) of a value in 1/200 of a point.  A value that is an exact
\* multiple of 0.01 is kept; a value halfway between two hundredths goes to
\* the side the binary floating-point value of the sum lies on, which the
\* snapshot carries as half_up.
round2(x, half_up) ==
    IF x % 2 = 0 THEN x
    ELSE IF half_up THEN x + 1 ELSE x - 1

None == [none |-> TRUE]

\* a result whose catalyst score grows with the number of detected tags
analysis_record_feedback(h, ticker, snap, catalysts) ==
    LET info == snap.info
        hist == snap.hist
        size_score == calculate_size_score(info)
        growth_score == calculate_growth_score(info)
        valuation_score == calculate_valuation_score(info)
        quality_score == calculate_quality_score(info)
        catalyst_score == Min(calculate_catalyst_score(h, info, hist) + 10 * Len(catalysts),
                              2 * 100)
        momentum_score == calculate_momentum_score(hist)
        multibagger_score == multibagger_composite(size_score, growth_score,
            valuation_score, quality_score, catalyst_score, momentum_score)
    IN [none |-> FALSE,
        ticker |-> ticker,
        name |-> Get(info.longName, ticker),
        sector |-> Get(info.sector, "Unknown"),
        multibagger_score |-> round2(multibagger_score, snap.half_up),
        size_score |-> size_score,
        growth_score |-> growth_score,
        valuation_score |-> valuation_score,
        quality_score |-> quality_score,
        catalyst_score |-> catalyst_score,
        momentum_score |-> momentum_score,
        catalysts |-> catalysts,
        num_catalysts |-> Len(catalysts),
        risk_level |-> assess_risk(info, hist),
        return_potential |-> estimate_return_potential(multibagger_score, Len(catalysts)),
        market_cap |-> Get(info.marketCap, 0),
        current_price |-> hist.close,
        pe_ratio |-> info.trailingPE,
        peg_ratio |-> info.pegRatio,
        revenue_growth |-> info.revenueGrowth,
        profit_margin |-> info.profitMargins]

\* the result dictionary built at the end of analyze_multibagger_potential,
\* catalysts being the list _detect_catalysts returned
analysis_record(h, ticker, snap, catalysts) ==
    LET info == snap.info
        hist == snap.hist
        size_score == calculate_size_score(info)
        growth_score == calculate_growth_score(info)
        valuation_score == calculate_valuation_score(info)
        quality_score == calculate_quality_score(info)
        catalyst_score == calculate_catalyst_score(h, info, hist)
        momentum_score == calculate_momentum_score(hist)
        multibagger_score == multibagger_composite(size_score, growth_score,
            valuation_score, quality_score, catalyst_score, momentum_score)
    IN [none |-> FALSE,
        ticker |-> ticker,
        name |-> Get(info.longName, ticker),
        sector |-> Get(info.sector, "Unknown"),
        multibagger_score |-> round2(multibagger_score, snap.half_up),
        size_score |-> size_score,
        growth_score |-> growth_score,
        valuation_score |-> valuation_score,
        quality_score |-> quality_score,
        catalyst_score |-> catalyst_score,
        momentum_score |-> momentum_score,
        catalysts |-> catalysts,
        num_catalysts |-> Len(catalysts),
        risk_level |-> assess_risk(info, hist),
        return_potential |-> estimate_return_potential(multibagger_score, Len(catalysts)),
        market_cap |-> Get(info.marketCap, 0),
        current_price |-> hist.close,
        pe_ratio |-> info.trailingPE,
        peg_ratio |-> info.pegRatio,
        revenue_growth |-> info.revenueGrowth,
        profit_margin |-> info.profitMargins]

analyze_multibagger_potential(h, ticker, snap) ==
    IF snap.fetch = "raises" THEN None
    ELSE IF snap.hist.len < 50 THEN None
    ELSE IF snap.malformed THEN None
    ELSE analysis_record(h, ticker, snap, detect_catalysts(h, snap.info, snap.hist))

----------------------------------------------------------------------------
(* Pillar 1: FundamentalAnalyzer component scorers *)
\* a variant that penalises a missing P/E
analyze_valuation_penalising(info) ==
    LET pe == info.trailingPE
        pb == info.priceToBook
        peg == info.pegRatio
        ps == info.priceToSalesTrailing12Months
        s1 == IF Truthy(pe)
              THEN IF pe[1] < 15 THEN 15
                   ELSE IF pe[1] < 25 THEN 10
                   ELSE IF pe[1] < 35 THEN 5
                   ELSE IF pe[1] > 50 THEN -15
                   ELSE IF pe[1] > 40 THEN -10
                   ELSE 0
              ELSE -5
        s2 == IF Truthy(pb)
              THEN IF pb[1] < 10 THEN 15
                   ELSE IF pb[1] < 30 THEN 10
                   ELSE IF pb[1] < 50 THEN 5
                   ELSE IF pb[1] > 100 THEN -10
                   ELSE 0
              ELSE 0
        s3 == IF Truthy(peg)
              THEN IF peg[1] < 10 THEN 15
                   ELSE IF peg[1] < 15 THEN 10
                   ELSE IF peg[1] < 20 THEN 5
                   ELSE IF peg[1] > 30 THEN -10
                   ELSE 0
              ELSE 0
        s4 == IF Truthy(ps)
              THEN IF ps[1] < 20 THEN 10
                   ELSE IF ps[1] < 50 THEN 5
                   ELSE IF ps[1] > 100 THEN -10
                   ELSE 0
              ELSE 0
    IN Clamp(50 + s1 + s2 + s3 + s4)

analyze_valuation(info) ==
    LET pe == info.trailingPE
        pb == info.priceToBook
        peg == info.pegRatio
        ps == info.priceToSalesTrailing12Months
        s1 == IF Truthy(pe)
              THEN IF pe[1] < 15 THEN 15
                   ELSE IF pe[1] < 25 THEN 10
                   ELSE IF pe[1] < 35 THEN 5
                   ELSE IF pe[1] > 50 THEN -15
                   ELSE IF pe[1] > 40 THEN -10
                   ELSE 0
              ELSE 0
        s2 == IF Truthy(pb)
              THEN IF pb[1] < 10 THEN 15
                   ELSE IF pb[1] < 30 THEN 10
                   ELSE IF pb[1] < 50 THEN 5
                   ELSE IF pb[1] > 100 THEN -10
                   ELSE 0
              ELSE 0
        s3 == IF Truthy(peg)
              THEN IF peg[1] < 10 THEN 15
                   ELSE IF peg[1] < 15 THEN 10
                   ELSE IF peg[1] < 20 THEN 5
                   ELSE IF peg[1] > 30 THEN -10
                   ELSE 0
              ELSE 0
        s4 == IF Truthy(ps)
              THEN IF ps[1] < 20 THEN 10
                   ELSE IF ps[1] < 50 THEN 5
                   ELSE IF ps[1] > 100 THEN -10
                   ELSE 0
              ELSE 0
    IN Clamp(50 + s1 + s2 + s3 + s4)

analyze_profitability(info) ==
    LET roe == info.returnOnEquity
        profit_margin == info.profitMargins
        operating_margin == info.operatingMargins
        roa == info.returnOnAssets
        s1 == IF Truthy(roe)
              THEN IF roe[1] > 20 THEN 20
                   ELSE IF roe[1] > 15 THEN 15
                   ELSE IF roe[1] > 10 THEN 10
                   ELSE IF roe[1] < 5 THEN -10
                   ELSE 0
              ELSE 0
        s2 == IF Truthy(profit_margin)
              THEN IF profit_margin[1] > 20 THEN 15
                   ELSE IF profit_margin[1] > 15 THEN 10
                   ELSE IF profit_margin[1] > 10 THEN 5
                   ELSE IF profit_margin[1] < 5 THEN -10
                   ELSE 0
              ELSE 0
        s3 == IF Truthy(operating_margin)
              THEN IF operating_margin[1] > 20 THEN 10
                   ELSE IF operating_margin[1] > 15 THEN 5
                   ELSE IF operating_margin[1] < 5 THEN -10
                   ELSE 0
              ELSE 0
        s4 == IF Truthy(roa)
              THEN IF roa[1] > 10 THEN 10
                   ELSE IF roa[1] > 5 THEN 5
                   ELSE IF roa[1] < 2 THEN -5
                   ELSE 0
              ELSE 0
    IN Clamp(50 + s1 + s2 + s3 + s4)

analyze_financial_health(info) ==
    LET de_ratio == info.debtToEquity
        current_ratio == info.currentRatio
        quick_ratio == info.quickRatio
        fcf == info.freeCashflow
        s1 == IF Truthy(de_ratio)
              THEN IF de_ratio[1] < 30 THEN 20
                   ELSE IF de_ratio[1] < 50 THEN 15
                   ELSE IF de_ratio[1] < 100 THEN 10
                   ELSE IF de_ratio[1] > 200 THEN -20
                   ELSE IF de_ratio[1] > 150 THEN -10
                   ELSE 0
              ELSE 0
        s2 == IF Truthy(current_ratio)
              THEN IF current_ratio[1] > 20 THEN 15
                   ELSE IF current_ratio[1] > 15 THEN 10
                   ELSE IF current_ratio[1] > 10 THEN 5
                   ELSE IF current_ratio[1] < 10 THEN -15
                   ELSE 0
              ELSE 0
        s3 == IF Truthy(quick_ratio)
              THEN IF quick_ratio[1] > 15 THEN 10
                   ELSE IF quick_ratio[1] > 10 THEN 5
                   ELSE IF quick_ratio[1] < 5 THEN -10
                   ELSE 0
              ELSE 0
        s4 == IF Truthy(fcf) /\ fcf[1] > 0 THEN 10
              ELSE IF Truthy(fcf) /\ fcf[1] < 0 THEN -15
              ELSE 0
    IN Clamp(50 + s1 + s2 + s3 + s4)

analyze_growth(info) ==
    LET revenue_growth == info.revenueGrowth
        earnings_growth == info.earningsGrowth
        eps_growth_q == info.earningsQuarterlyGrowth
        s1 == IF Truthy(revenue_growth)
              THEN IF revenue_growth[1] > 20 THEN 20
                   ELSE IF revenue_growth[1] > 15 THEN 15
                   ELSE IF revenue_growth[1] > 10 THEN 10
                   ELSE IF revenue_growth[1] > 5 THEN 5
                   ELSE IF revenue_growth[1] < 0 THEN -15
                   ELSE 0
              ELSE 0
        s2 == IF Truthy(earnings_growth)
              THEN IF earnings_growth[1] > 25 THEN 20
                   ELSE IF earnings_growth[1] > 15 THEN 15
                   ELSE IF earnings_growth[1] > 10 THEN 10
                   ELSE IF earnings_growth[1] < 0 THEN -15
                   ELSE 0
              ELSE 0
        s3 == IF Truthy(eps_growth_q)
              THEN IF eps_growth_q[1] > 20 THEN 10
                   ELSE IF eps_growth_q[1] > 10 THEN 5
                   ELSE IF eps_growth_q[1] < 0 THEN -10
                   ELSE 0
              ELSE 0
    IN Clamp(50 + s1 + s2 + s3)

analyze_dividends(info) ==
    LET div_yield == info.dividendYield
        payout == info.payoutRatio
        s1 == IF Truthy(div_yield)
              THEN IF div_yield[1] > 4 THEN 20
                   ELSE IF div_yield[1] > 3 THEN 15
                   ELSE IF div_yield[1] > 2 THEN 10
                   ELSE IF div_yield[1] > 1 THEN 5
                   ELSE 0
              ELSE 5
        s2 == IF Truthy(payout)
              THEN IF 30 < payout[1] /\ payout[1] < 60 THEN 15
                   ELSE IF (20 < payout[1] /\ payout[1] <= 30)
                            \/ (60 <= payout[1] /\ payout[1] < 80) THEN 10
                   ELSE IF payout[1] >= 100 THEN -20
                   ELSE 0
              ELSE 0
    IN Clamp(50 + s1 + s2)

\* total_score of FundamentalAnalyzer.analyze, in 1/100 of a point
fundamental_composite(valuation, profitability, financial_health, growth, dividends) ==
    valuation * 25 + profitability * 25 + financial_health * 20 + growth * 20
        + dividends * 10

\* total_score is in 1/100 of a point
fundamental_rating(total_score) ==
    IF total_score >= 80 * 100 THEN "STRONG BUY"
    ELSE IF total_score >= 65 * 100 THEN "BUY"
    ELSE IF total_score >= 45 * 100 THEN "HOLD"
    ELSE IF total_score >= 30 * 100 THEN "SELL"
    ELSE "STRONG SELL"

----------------------------------------------------------------------------
(* Pillar 2: TechnicalAnalyzer component scorers                           *)
(* ta carries the last row of the indicator table: ta.len is the number of *)
(* rows; price_vs_sma20/50/200 are current_price as a percentage of the    *)
(* moving average, <<>> when the average is NaN (fewer rows than the       *)
(* window); an .iloc[-k] on fewer than k rows raises IndexError, which the *)
(* scorer's own except clause catches, returning the score reached so far. *)

\* a > b on two floats either of which may be NaN
Gt(a, b) == a # Absent /\ b # Absent /\ a[1] > b[1]

Lt(a, b) == a # Absent /\ b # Absent /\ a[1] < b[1]

analyze_trend(ta) ==
    LET p20 == ta.price_vs_sma20
        p50 == ta.price_vs_sma50
        p200 == ta.price_vs_sma200
        s1 == IF Gt(p20, Some(100)) THEN 10 ELSE -10
        s2 == IF Gt(p50, Some(100)) THEN 15 ELSE -15
        s3 == IF Gt(p200, Some(100)) THEN 20 ELSE -20
        \* sma_20 > sma_50  <=>  price/sma_20 < price/sma_50
        s4 == IF Lt(p20, p50) /\ Lt(p50, p200) THEN 15
              ELSE IF Gt(p20, p50) /\ Gt(p50, p200) THEN -15
              ELSE 0
        s5 == IF ta.len < 20 THEN 0     \* IndexError: rule not reached
              ELSE IF ta.returns_20d > 10 THEN 10
              ELSE IF ta.returns_20d > 5 THEN 5
              ELSE IF ta.returns_20d < -10 THEN -10
              ELSE IF ta.returns_20d < -5 THEN -5
              ELSE 0
    IN Clamp(50 + s1 + s2 + s3 + s4 + s5)

analyze_momentum(ta) ==
    LET rsi == ta.rsi
        macd_hist == ta.macd_hist
        prev == ta.macd_hist_prev
        s1 == IF Gt(rsi, Some(40)) /\ Lt(rsi, Some(60)) THEN 10
              ELSE IF Gt(rsi, Some(30)) /\ rsi[1] <= 40 THEN 15
              ELSE IF rsi # Absent /\ rsi[1] <= 30 THEN 20
              ELSE IF rsi # Absent /\ 60 <= rsi[1] /\ rsi[1] < 70 THEN 5
              ELSE IF rsi # Absent /\ rsi[1] >= 70 THEN -10
              ELSE 0
        \* macd > macd_signal  <=>  macd_hist = macd - macd_signal > 0
        s2 == IF macd_hist > 0 THEN 15 ELSE -10
        s3 == IF macd_hist > 0 /\ prev < 0 THEN 15
              ELSE IF macd_hist < 0 /\ prev > 0 THEN -15
              ELSE 0
        s4 == IF macd_hist > prev THEN 5 ELSE -5
    IN IF ta.len < 2 THEN Clamp(50 + s1 + s2)     \* IndexError at iloc[-2]
       ELSE Clamp(50 + s1 + s2 + s3 + s4)

\* ta.bb_position is (price - bb_lower) / bb_width in %, <<>> when NaN;
\* ta.volatility is the annualised volatility in %, <<>> when NaN
analyze_volatility(ta) ==
    LET bb == ta.bb_position
        vol == ta.volatility
        s1 == IF Gt(bb, Some(30)) /\ Lt(bb, Some(70)) THEN 15
              ELSE IF bb # Absent /\ bb[1] <= 20 THEN 20
              ELSE IF bb # Absent /\ bb[1] >= 80 THEN -10
              ELSE 0
        s2 == IF Lt(vol, Some(20)) THEN 10
              ELSE IF Lt(vol, Some(30)) THEN 5
              ELSE IF Gt(vol, Some(50)) THEN -10
              ELSE 0
    IN Clamp(50 + s1 + s2)

\* ta.volume_ratio is current_volume / volume_sma in units of 0.1, <<>> when
\* NaN; ta.price_change is the sign of the last daily change, <<>> when NaN;
\* ta.volume_10_vs_50 is avg_volume_10d as a percentage of avg_volume_50d
analyze_volume(ta) ==
    LET vr == ta.volume_ratio
        pc1 == ta.price_change
        s1 == IF Gt(pc1, Some(0)) /\ Gt(vr, Some(12)) THEN 20
              ELSE IF Gt(pc1, Some(0)) /\ Gt(vr, Some(10)) THEN 10
              ELSE IF Lt(pc1, Some(0)) /\ Gt(vr, Some(12)) THEN -20
              ELSE IF Lt(pc1, Some(0)) /\ Gt(vr, Some(10)) THEN -10
              ELSE 0
        s2 == IF ta.volume_10_vs_50 > 120 THEN 10
              ELSE IF ta.volume_10_vs_50 < 80 THEN -5
              ELSE 0
    IN Clamp(50 + s1 + s2)

\* ta.position is (current_price - recent_low) / price_range in %, <<>> when
\* price_range > 0 fails; ta.highs / ta.lows are the sign of
\* highs.iloc[-1] - highs.iloc[-10] and lows.iloc[-1] - lows.iloc[-10]
analyze_patterns(ta) ==
    LET s1 == IF ta.position # Absent
              THEN IF ta.position[1] < 30 THEN 15
                   ELSE IF ta.position[1] > 70 THEN -10
                   ELSE 0
              ELSE 0
        s2 == IF ta.len < 10 THEN 0     \* IndexError: rule not reached
              ELSE IF ta.highs > 0 /\ ta.lows > 0 THEN 15
              ELSE IF ta.highs < 0 /\ ta.lows < 0 THEN -15
              ELSE 0
    IN Clamp(50 + s1 + s2)

\* total_score of TechnicalAnalyzer.analyze, in 1/100 of a point
technical_composite(trend, momentum, volatility, volume, patterns) ==
    trend * 30 + momentum * 25 + volatility * 15 + volume * 15 + patterns * 15
\* overall_signal on the cutoffs of the fundamental rating
overall_signal_uniform(score) ==
    IF score >= 80 * 100 THEN "STRONG BUY"
    ELSE IF score >= 65 * 100 THEN "BUY"
    ELSE IF score >= 45 * 100 THEN "HOLD"
    ELSE IF score >= 30 * 100 THEN "SELL"
    ELSE "STRONG SELL"

\* score is in 1/100 of a point
overall_signal(score) ==
    IF score >= 70 * 100 THEN "STRONG BUY"
    ELSE IF score >= 55 * 100 THEN "BUY"
    ELSE IF score >= 45 * 100 THEN "HOLD"
    ELSE IF score >= 30 * 100 THEN "SELL"
    ELSE "STRONG SELL"

----------------------------------------------------------------------------
(* Pillar 3: SentimentAnalyzer sub-scores                                  *)
(* A query of the data source is [kind, rows]: kind "none" (None or an     *)
(* empty frame / list), "raises" (the query or the parsing of its result   *)
(* raises, caught by the scorer's except clause) or "ok".                  *)
(* The four sub-scores are in 1/NEWS_UNIT of a point: the news score       *)
(* 50 + 40 * (pos - neg) / total has a denominator of at most 10.          *)

NEWS_UNIT == 2520

\* rows.tail(n)
Tail_n(rows, n) == SubSeq(rows, Max(1, Len(rows) - n + 1), Len(rows))

\* rows.head(n), rows[:n]
Head_n(rows, n) == SubSeq(rows, 1, Min(n, Len(rows)))

\* a row of recommendations is [buy_word, sell_word]: whether 'To Grade'
\* contains one of the buy words, one of the sell words
analyze_analyst_recommendations(rec_data) ==
    IF rec_data.kind # "ok" \/ Len(rec_data.rows) = 0 THEN 50 * NEWS_UNIT
    ELSE
    LET recent_recs == Tail_n(rec_data.rows, 20)
        buy_count == Cardinality({i \in DOMAIN recent_recs : recent_recs[i].buy_word})
        sell_count == Cardinality({i \in DOMAIN recent_recs :
                            ~recent_recs[i].buy_word /\ recent_recs[i].sell_word})
        hold_count == Cardinality({i \in DOMAIN recent_recs :
                            ~recent_recs[i].buy_word /\ ~recent_recs[i].sell_word})
        total == buy_count + hold_count + sell_count
    IN IF total > 0
       THEN (IF 10 * buy_count > 7 * total THEN 85          \* buy_ratio > 0.7
             ELSE IF 10 * buy_count > 5 * total THEN 70     \* buy_ratio > 0.5
             ELSE IF 10 * sell_count > 5 * total THEN 30    \* sell_ratio > 0.5
             ELSE IF 10 * sell_count > 3 * total THEN 40    \* sell_ratio > 0.3
             ELSE 55) * NEWS_UNIT
       ELSE 50 * NEWS_UNIT
\* news_positive_count over every headline, not the first 10
news_positive_count_all(news) ==
    Cardinality({i \in DOMAIN news.rows : news.rows[i].pos > news.rows[i].neg})

\* an article is [pos, neg]: the number of positive / negative words that
\* occur in its title
news_positive_count(news) ==
    LET articles == Head_n(news.rows, 10)
    IN Cardinality({i \in DOMAIN articles : articles[i].pos > articles[i].neg})

news_negative_count(news) ==
    LET articles == Head_n(news.rows, 10)
    IN Cardinality({i \in DOMAIN articles : articles[i].neg > articles[i].pos})

analyze_news_sentiment(news) ==
    IF news.kind # "ok" \/ Len(news.rows) = 0 THEN 50 * NEWS_UNIT
    ELSE
    LET positive_count == news_positive_count(news)
        negative_count == news_negative_count(news)
        total == positive_count + negative_count
        score == IF total > 0
                 THEN 50 * NEWS_UNIT
                      + ((positive_count - negative_count) * 40 * NEWS_UNIT) \div total
                 ELSE 50 * NEWS_UNIT
    IN Max(10 * NEWS_UNIT, Min(90 * NEWS_UNIT, score))

\* holders is [kind, inst_pct]: "none" when institutional_holders or
\* major_holders is None or empty, "raises" when float(....strip('%')) raises
analyze_institutional_holdings(holders) ==
    IF holders.kind # "ok" THEN 50 * NEWS_UNIT
    ELSE (IF holders.inst_pct > 80 THEN 75
          ELSE IF holders.inst_pct > 60 THEN 65
          ELSE IF holders.inst_pct > 40 THEN 55
          ELSE IF holders.inst_pct < 20 THEN 40
          ELSE 50) * NEWS_UNIT

\* a row of insider_transactions is "Sale", "Buy" or "Other": what its
\* Transaction text contains ('Sale' is tested first)
analyze_insider_activity(insider_trades) ==
    IF insider_trades.kind # "ok" \/ Len(insider_trades.rows) = 0 THEN 50 * NEWS_UNIT
    ELSE
    LET recent_trades == Head_n(insider_trades.rows, 20)
        sells == Cardinality({i \in DOMAIN recent_trades : recent_trades[i] = "Sale"})
        buys == Cardinality({i \in DOMAIN recent_trades : recent_trades[i] = "Buy"})
    IN (IF buys > sells * 2 THEN 70
        ELSE IF buys > sells THEN 60
        ELSE IF sells > buys * 3 THEN 40
        ELSE IF sells > buys THEN 45
        ELSE 50) * NEWS_UNIT
\* sentiment_composite with the institutional and insider weights exchanged
sentiment_composite_swapped(analyst_rec, news, institutional, insider) ==
    analyst_rec * 35 + news * 25 + institutional * 15 + insider * 25

\* total_score of SentimentAnalyzer.analyze, in 1/(100 * NEWS_UNIT) of a point
sentiment_composite(analyst_rec, news, institutional, insider) ==
    analyst_rec * 35 + news * 25 + institutional * 25 + insider * 15

\* total_score is in 1/(100 * NEWS_UNIT) of a point
sentiment_label(total_score) ==
    IF total_score >= 70 * 100 * NEWS_UNIT THEN "VERY BULLISH"
    ELSE IF total_score >= 55 * 100 * NEWS_UNIT THEN "BULLISH"
    ELSE IF total_score >= 45 * 100 * NEWS_UNIT THEN "NEUTRAL"
    ELSE IF total_score >= 30 * 100 * NEWS_UNIT THEN "BEARISH"
    ELSE "VERY BEARISH"

----------------------------------------------------------------------------
(* market_scanner.analyze_stock_simplified                                 *)
(* snap.hist6 is the 6-month history: its length, the 1- and 3-month       *)
(* returns in %, the last RSI (<<>> when NaN) and the last close.           *)
\* simplified_signal buying on the RSI alone
simplified_signal_rsi_only(current_rsi, returns_1m) ==
    IF Lt(current_rsi, Some(30)) THEN [signal |-> "BUY", score |-> 70]
    ELSE IF Gt(current_rsi, Some(70)) /\ returns_1m > 10 THEN [signal |-> "SELL", score |-> 30]
    ELSE IF Gt(current_rsi, Some(40)) /\ Lt(current_rsi, Some(60))
        THEN [signal |-> "HOLD", score |-> 50]
    ELSE IF Lt(current_rsi, Some(40)) THEN [signal |-> "BUY", score |-> 60]
    ELSE [signal |-> "HOLD", score |-> 50]

simplified_signal(current_rsi, returns_1m) ==
    IF Lt(current_rsi, Some(30)) /\ returns_1m < -10 THEN [signal |-> "BUY", score |-> 70]
    ELSE IF Gt(current_rsi, Some(70)) /\ returns_1m > 10 THEN [signal |-> "SELL", score |-> 30]
    ELSE IF Gt(current_rsi, Some(40)) /\ Lt(current_rsi, Some(60))
        THEN [signal |-> "HOLD", score |-> 50]
    ELSE IF Lt(current_rsi, Some(40)) THEN [signal |-> "BUY", score |-> 60]
    ELSE [signal |-> "HOLD", score |-> 50]

analyze_stock_simplified(ticker, snap) ==
    IF snap.fetch = "raises" THEN None
    ELSE IF snap.hist6.len = 0 THEN None
    ELSE IF snap.malformed THEN None
    ELSE
    LET hist == snap.hist6
        info == snap.info
        returns_1m == IF hist.len >= 20 THEN hist.returns_1m ELSE 0
        returns_3m == IF hist.len >= 60 THEN hist.returns_3m ELSE 0
        sig == simplified_signal(hist.rsi, returns_1m)
    IN [none |-> FALSE,
        ticker |-> ticker,
        name |-> Get(info.longName, ticker),
        sector |-> Get(info.sector, "N/A"),
        current_price |-> hist.close,
        returns_1m |-> returns_1m,
        returns_3m |-> returns_3m,
        rsi |-> hist.rsi,
        signal |-> sig.signal,
        score |-> sig.score,
        market_cap |-> Get(info.marketCap, 0),
        pe_ratio |-> info.trailingPE]

----------------------------------------------------------------------------
(* multibagger.quick_multibagger_scan: the per-ticker gate and tally *)

\* <<>> when the ticker is rejected, <<(ticker, score)>> when it is a candidate
quick_filter(ticker, snap) ==
    IF snap.fetch = "raises" \/ snap.malformed THEN <<>>
    ELSE
    LET info == snap.info
        mcap == Get(info.marketCap, 0)
        rev_growth == Get(info.revenueGrowth, 0)
        profit_margin == Get(info.profitMargins, 0)
        score == (IF mcap < 2000 THEN 3 ELSE 0)
                 + (IF rev_growth > 30 THEN 3 ELSE 0)
                 + (IF profit_margin > 10 THEN 2 ELSE 0)
    IN IF ~(500 <= mcap /\ mcap <= 10000) THEN <<>>
       ELSE IF rev_growth = 0 \/ rev_growth < 15 THEN <<>>
       ELSE IF profit_margin = 0 \/ profit_margin < 0 THEN <<>>
       ELSE << <<ticker, score>> >>
\* a descending sort that reverses the rows with equal keys
sort_reverse_unstable(seq, keys) ==
    LET n == Len(seq)
        rank(i) == Cardinality({j \in 1..n :
                        keys[j] > keys[i] \/ (keys[j] = keys[i] /\ j > i)})
    IN [k \in 1..n |-> seq[CHOOSE i \in 1..n : rank(i) = k - 1]]

\* list.sort(key=..., reverse=True), keys[i] being the key of seq[i]:
\* descending, equal keys keep their order
sort_reverse(seq, keys) ==
    LET n == Len(seq)
        rank(i) == Cardinality({j \in 1..n :
                        keys[j] > keys[i] \/ (keys[j] = keys[i] /\ j < i)})
    IN [k \in 1..n |-> seq[CHOOSE i \in 1..n : rank(i) = k - 1]]

\* DataFrame.sort_values(by, ascending=False) with the default kind
\* ('quicksort'), keys[i] being the value of row i in the column: every
\* arrangement of the rows that is descending in the key; the order of rows
\* with equal keys is not specified
sort_values_descending(seq, keys) ==
    LET n == Len(seq)
        Perms == {p \in [1..n -> 1..n] : \A i, j \in 1..n : i # j => p[i] # p[j]}
    IN {[k \in 1..n |-> seq[p[k]]] : p \in
           {q \in Perms : \A k \in 1..n : k < n => keys[q[k]] >= keys[q[k + 1]]}}

----------------------------------------------------------------------------
(* The data source the scans read: a table of snapshots.                   *)
(* A snapshot is [fetch, malformed, info, hist, hist6, half_up, oracle]:   *)
(* fetch = "raises" when yf.Ticker(...).info / .history raises; malformed  *)
(* when an attribute has a type that makes a scorer's comparison raise;    *)
(* oracle is the outcome of OracleEngine(ticker).analyze().                *)

BaseInfo ==
    [marketCap |-> Some(700), revenueGrowth |-> Some(35), earningsGrowth |-> Some(45),
     revenueQuarterlyGrowth |-> Some(25), pegRatio |-> Some(4), trailingPE |-> Some(10),
     priceToBook |-> Some(20), profitMargins |-> Some(25), returnOnEquity |-> Some(30),
     debtToEquity |-> Some(20), currentRatio |-> Some(25), operatingCashflow |-> Some(1),
     sector |-> Some("Mining"), heldPercentInsiders |-> Some(35),
     heldPercentInstitutions |-> Some(20), longName |-> Some("PT Base Tbk")]

BaseHist ==
    [len |-> 250, momentum_6m |-> 60, momentum_3m |-> 35, rsi |-> Some(50),
     price_vs_ma50 |-> 110, price_vs_ma200 |-> 110, volume_ratio |-> Some(35),
     volatility |-> 30, close |-> 1000]

BaseHist6 ==
    [len |-> 125, returns_1m |-> 4, returns_3m |-> 12, rsi |-> Some(50), close |-> 1000]

BaseSnapshot ==
    [fetch |-> "ok", malformed |-> FALSE, info |-> BaseInfo, hist |-> BaseHist,
     hist6 |-> BaseHist6, half_up |-> TRUE, oracle |-> "ok"]

Universe ==
    {"BBBB.JK", "CCCC.JK", "DDDD.JK", "EEEE.JK", "FFFF.JK", "GGGG", "GGGG.JK", "HHHH.JK",
     "IIII.JK"}

Market ==
    [t \in Universe |->
        CASE t = "BBBB.JK" ->
                [BaseSnapshot EXCEPT !.info.marketCap = Some(4000),
                                     !.info.sector = Some("Financial Services"),
                                     !.info.longName = Absent,
                                     !.hist6.rsi = Some(25), !.hist6.returns_1m = -15]
          [] t = "CCCC.JK" ->
                [BaseSnapshot EXCEPT !.info.marketCap = Some(4000),
                                     !.info.sector = Some("Financial Services"),
                                     !.info.pegRatio = Some(3),
                                     !.hist6.rsi = Some(75), !.hist6.returns_1m = 15]
          [] t = "DDDD.JK" ->
                [BaseSnapshot EXCEPT !.info.marketCap = Some(20000),
                                     !.info.revenueGrowth = Some(5),
                                     !.info.earningsGrowth = Absent,
                                     !.info.profitMargins = Some(-3),
                                     !.info.debtToEquity = Some(150),
                                     !.hist.momentum_6m = -20, !.hist.momentum_3m = -5,
                                     !.hist.price_vs_ma50 = 90, !.hist.volatility = 70,
                                     !.hist6.rsi = Some(35), !.oracle = "raises"]
          [] t = "EEEE.JK" -> [BaseSnapshot EXCEPT !.fetch = "raises", !.oracle = "raises"]
          [] t = "FFFF.JK" ->
                [BaseSnapshot EXCEPT !.info.marketCap = Some(5000),
                                     !.info.revenueGrowth = Some(20),
                                     !.info.profitMargins = Some(5),
                                     !.hist.len = 49, !.hist6.len = 0]
          [] t = "GGGG" -> [BaseSnapshot EXCEPT !.malformed = TRUE]
          [] t = "GGGG.JK" ->
                \* composite 95.125, round(95.125, 2) = 95.12
                [BaseSnapshot EXCEPT !.info.sector = Some("Energy"),
                                     !.info.marketCap = Some(1500),
                                     !.hist6.len = 14, !.hist6.rsi = Absent,
                                     !.half_up = FALSE]
          [] t = "HHHH.JK" ->
                \* composite 92.875, round(92.875, 2) = 92.88
                [BaseSnapshot EXCEPT !.info.sector = Some("Industrials"),
                                     !.info.marketCap = Some(2500),
                                     !.info.heldPercentInstitutions = Absent,
                                     !.half_up = TRUE]
          [] t = "IIII.JK" ->
                \* composite 30*0.20 + 100*0.25 + 100*0.15 + 100*0.15 + 60*0.15 = 70.00
                [BaseSnapshot EXCEPT !.info.marketCap = Some(20000),
                                     !.info.heldPercentInsiders = Absent,
                                     !.info.heldPercentInstitutions = Absent,
                                     !.hist.momentum_6m = -5, !.hist.momentum_3m = 0,
                                     !.hist.rsi = Some(75), !.hist.price_vs_ma50 = 95,
                                     !.hist.price_vs_ma200 = 95]]

----------------------------------------------------------------------------
(* The batch scans *)

MaxTickers == 3

MaxParam == 2

\* every list of at most n elements of S
SeqsUpTo(S, n) == UNION {[1..k -> S] : k \in 0..n}

\* `if not ticker.endswith('.JK'): ticker = f"{ticker}.JK"`
with_jk(ticker) == IF ticker = "GGGG" THEN "GGGG.JK" ELSE ticker
\* an analysis that heats up the sector theme it has just read
after_analyze_heating(h, ticker, snap) ==
    [h EXCEPT !.indonesian_themes["Financial Services"] = @ + 1]

\* what analyze_multibagger_potential leaves of the hunter it is called on:
\* it assigns no attribute of self
after_analyze(h, ticker, snap) == h

NoCall == [fn |-> "none", arg |-> <<>>, out |-> <<>>, done |-> TRUE]

ScanInit ==
    /\ call = NoCall
    /\ hunter = NewHunter
    /\ market = Market
    /\ tickers \in SeqsUpTo(Universe, MaxTickers)
    /\ \E sc \in {"scan_market", "quick_multibagger_scan", "quick_scan", "custom_scan",
                  "deep_market_scan"} :
        /\ scanner = sc
        /\ param \in CASE sc = "quick_multibagger_scan" -> {[top_n |-> n] : n \in 0..MaxParam}
                       [] sc = "quick_scan" -> {[limit |-> n] : n \in 0..MaxParam}
                       [] sc = "deep_market_scan" -> {[engine |-> b] : b \in BOOLEAN}
                       [] OTHER -> {[none |-> TRUE]}
    /\ idx = 0
    /\ analysed = <<>>
    /\ results = <<>>
    /\ pc = "loop"
    /\ output = <<>>

ScanFrame == UNCHANGED <<call, market, scanner, tickers, param>>
\* scan_market_step without the try / except: a failed analysis ends the loop
scan_market_step_aborting ==
    /\ scanner = "scan_market" /\ pc = "loop" /\ idx < Len(tickers)
    /\ LET ticker == tickers[idx + 1]
           analysis == analyze_multibagger_potential(hunter, ticker, market[ticker])
       IN /\ results' = IF ~analysis.none /\ analysis.multibagger_score >= hunter.min_score * 200
                        THEN Append(results, analysis) ELSE results
          /\ analysed' = Append(analysed, ticker)
          /\ idx' = IF analysis.none THEN Len(tickers) ELSE idx + 1
    /\ UNCHANGED <<hunter, pc, output>>
    /\ ScanFrame
\* scan_market_step trying a failed analysis a second time
scan_market_step_retrying ==
    /\ scanner = "scan_market" /\ pc = "loop" /\ idx < Len(tickers)
    /\ LET ticker == tickers[idx + 1]
           analysis == analyze_multibagger_potential(hunter, ticker, market[ticker])
       IN /\ results' = IF ~analysis.none /\ analysis.multibagger_score >= hunter.min_score * 200
                        THEN Append(results, analysis) ELSE results
          /\ hunter' = after_analyze(hunter, ticker, market[ticker])
          /\ analysed' = Append(analysed, ticker)
          /\ idx' = IF analysis.none /\ Len(analysed) = idx THEN idx ELSE idx + 1
    /\ UNCHANGED <<pc, output>>
    /\ ScanFrame

\* MultibaggerHunter.scan_market, one iteration of the loop
scan_market_step ==
    /\ scanner = "scan_market" /\ pc = "loop" /\ idx < Len(tickers)
    /\ LET ticker == tickers[idx + 1]
           analysis == analyze_multibagger_potential(hunter, ticker, market[ticker])
       IN /\ results' = IF ~analysis.none /\ analysis.multibagger_score >= hunter.min_score * 200
                        THEN Append(results, analysis) ELSE results
          /\ hunter' = after_analyze(hunter, ticker, market[ticker])
          /\ analysed' = Append(analysed, ticker)
    /\ idx' = idx + 1
    /\ UNCHANGED <<pc, output>>
    /\ ScanFrame

\* MultibaggerHunter.scan_market, after the loop
scan_market_return ==
    /\ scanner = "scan_market" /\ pc = "loop" /\ idx = Len(tickers)
    /\ output' \in sort_values_descending(results,
                        [k \in DOMAIN results |-> results[k].multibagger_score])
    /\ pc' = "done"
    /\ UNCHANGED <<hunter, idx, analysed, results>>
    /\ ScanFrame

\* quick_multibagger_scan, one iteration of the loop
quick_multibagger_scan_step ==
    /\ scanner = "quick_multibagger_scan" /\ pc = "loop" /\ idx < Len(tickers)
    /\ LET ticker == tickers[idx + 1]
       IN /\ results' = results \o quick_filter(ticker, market[ticker])
          /\ analysed' = Append(analysed, ticker)
    /\ idx' = idx + 1
    /\ UNCHANGED <<hunter, pc, output>>
    /\ ScanFrame

\* quick_multibagger_scan, after the loop
quick_multibagger_scan_return ==
    /\ scanner = "quick_multibagger_scan" /\ pc = "loop" /\ idx = Len(tickers)
    /\ LET candidates == sort_reverse(results, [k \in DOMAIN results |-> results[k][2]])
           top == Head_n(candidates, param.top_n)
       IN output' = [k \in 1..Len(top) |-> top[k][1]]
    /\ pc' = "done"
    /\ UNCHANGED <<hunter, idx, analysed, results>>
    /\ ScanFrame

\* the loop shared by market_scanner.quick_scan and custom_scan (and by
\* deep_market_scan when OracleEngine cannot be imported)
simplified_step(stocks) ==
    /\ pc = "loop" /\ idx < Len(stocks)
    /\ LET ticker == stocks[idx + 1]
           result == analyze_stock_simplified(ticker, market[ticker])
       IN /\ results' = IF ~result.none THEN Append(results, result) ELSE results
          /\ analysed' = Append(analysed, ticker)
    /\ idx' = idx + 1
    /\ UNCHANGED <<hunter, pc, output>>
    /\ ScanFrame

simplified_return(stocks) ==
    /\ pc = "loop" /\ idx = Len(stocks)
    /\ output' = results
    /\ pc' = "done"
    /\ UNCHANGED <<hunter, idx, analysed, results>>
    /\ ScanFrame

\* quick_scan(limit): tickers stands for MAJOR_IDX_STOCKS
quick_scan_step ==
    /\ scanner = "quick_scan"
    /\ simplified_step(Head_n(tickers, param.limit))

quick_scan_return ==
    /\ scanner = "quick_scan"
    /\ simplified_return(Head_n(tickers, param.limit))

custom_scan_step ==
    /\ scanner = "custom_scan" \/ (scanner = "deep_market_scan" /\ ~param.engine)
    /\ simplified_step([k \in DOMAIN tickers |-> with_jk(tickers[k])])

custom_scan_return ==
    /\ scanner = "custom_scan" \/ (scanner = "deep_market_scan" /\ ~param.engine)
    /\ simplified_return(tickers)

\* deep_market_scan when OracleEngine imports, one iteration of the loop
deep_market_scan_step ==
    /\ scanner = "deep_market_scan" /\ param.engine /\ pc = "loop" /\ idx < Len(tickers)
    /\ LET ticker == tickers[idx + 1]
       IN /\ results' = IF market[ticker].oracle = "ok"
                        THEN Append(results, [ticker |-> ticker]) ELSE results
          /\ analysed' = Append(analysed, ticker)
    /\ idx' = idx + 1
    /\ UNCHANGED <<hunter, pc, output>>
    /\ ScanFrame

deep_market_scan_return ==
    /\ scanner = "deep_market_scan" /\ param.engine /\ pc = "loop" /\ idx = Len(tickers)
    /\ output' = results
    /\ pc' = "done"
    /\ UNCHANGED <<hunter, idx, analysed, results>>
    /\ ScanFrame

ScanNext ==
    \/ scan_market_step
    \/ scan_market_return
    \/ quick_multibagger_scan_step
    \/ quick_multibagger_scan_return
    \/ quick_scan_step
    \/ quick_scan_return
    \/ custom_scan_step
    \/ custom_scan_return
    \/ deep_market_scan_step
    \/ deep_market_scan_return

SpecScan == ScanInit /\ [][ScanNext]_vars
\* one call of MultibaggerHunter.scan_market(tickers), run to its end: the
\* for loop is sequential code, so a pending iteration is eventually taken
ScanMarketInit == ScanInit /\ scanner = "scan_market"

ScanMarketNext == scan_market_step \/ scan_market_return

SpecScanMarket == ScanMarketInit /\ [][ScanMarketNext]_vars /\ WF_vars(ScanMarketNext)

----------------------------------------------------------------------------
(* The scorers applied one at a time: the metric inputs are drawn from the *)
(* values on either side of every threshold the code compares them with,   *)
(* together with absent, zero and negative values.                         *)

MaxRows == 21

MaxNews == 11

GridN == 2

MaxCatalysts == 8

Opt(S) == {Absent} \cup {Some(v) : v \in S}

\* the scores i * 100 / GridN, i = 0..GridN, scaled by unit
Grid(unit) == {(i * 100 * unit) \div GridN : i \in 0..GridN}

SizeArgs == [marketCap : Opt({-100, 0, 300, 499, 500, 700, 999, 1000, 2000, 2999, 3000,
                              4000, 4999, 5000, 7000, 9999, 10000, 15000})]

GrowthArgs ==
    [revenueGrowth : Opt({-5, 0, 10, 11, 20, 21, 30, 31, 50, 51}),
     earningsGrowth : Opt({-5, 0, 15, 16, 25, 26, 40, 41}),
     revenueQuarterlyGrowth : Opt({-5, 0, 20, 21})]

ValuationArgs ==
    [pegRatio : Opt({-5, 0, 4, 5, 9, 10, 14, 15, 19, 20}),
     trailingPE : Opt({-5, 0, 5, 6, 14, 15, 24, 25, 39, 40}),
     priceToBook : Opt({-5, 0, 29, 30})]

QualityArgs ==
    [profitMargins : Opt({-5, 0, 5, 6, 10, 11, 20, 21}),
     returnOnEquity : Opt({-5, 0, 10, 11, 15, 16, 25, 26}),
     debtToEquity : Opt({0, 29, 30, 49, 50, 99, 100}),
     currentRatio : Opt({0, 10, 11, 15, 16, 20, 21}),
     operatingCashflow : Opt({-1, 0, 1})]

CatalystArgs ==
    [h : {NewHunter},
     info : [sector : Opt({"Mining", "Energy", "Financial Services", "Healthcare"}),
             heldPercentInsiders : Opt({0, 10, 11, 20, 21, 30, 31}),
             heldPercentInstitutions : Opt({0, 29, 30, 49, 50}),
             revenueGrowth : Opt({-5, 0, 50, 51})],
     hist : [volume_ratio : Opt({15, 16, 20, 21, 30, 31})]]

\* momentum_6m / momentum_3m exist only on a long enough history
MomentumArgs ==
    {hist \in [len : {0, 49, 50, 62, 63, 125, 126, 199, 200},
               momentum_6m : {-10, 0, 1, 10, 11, 25, 26, 50, 51},
               momentum_3m : {-10, 5, 6, 15, 16, 30, 31},
               rsi : Opt({29, 30, 39, 40, 70, 71}),
               price_vs_ma50 : {100, 101},
               price_vs_ma200 : {100, 101}] :
        /\ hist.len < 126 => hist.momentum_6m = 0
        /\ hist.len < 63 => hist.momentum_3m = 5
        /\ hist.len < 200 => hist.price_vs_ma200 = 100
        /\ hist.len < 50 => hist.price_vs_ma50 = 100 /\ hist.rsi = Absent}

RiskArgs ==
    [info : [marketCap : Opt({0, 499, 500, 1999, 2000, 4999, 5000}),
             debtToEquity : Opt({0, 50, 51, 100, 101}),
             profitMargins : Opt({-1, 0, 4, 5})],
     hist : [len : {29, 30}, volatility : {40, 41, 60, 61}]]

\* composite scores in 1/200 of a point
ReturnArgs ==
    [score : {0, 69 * 200 + 199, 70 * 200, 72 * 200, 74 * 200 + 199, 75 * 200,
              79 * 200 + 199, 80 * 200, 84 * 200 + 199, 85 * 200, 90 * 200, 100 * 200},
     num_catalysts : 0..MaxCatalysts]

FundValuationArgs ==
    [trailingPE : Opt({-5, 0, 14, 15, 24, 25, 34, 35, 40, 41, 50, 51}),
     priceToBook : Opt({0, 9, 10, 29, 30, 49, 50, 100, 101}),
     pegRatio : Opt({0, 9, 10, 14, 15, 19, 20, 30, 31}),
     priceToSalesTrailing12Months : Opt({0, 19, 20, 49, 50, 100, 101})]

FundProfitabilityArgs ==
    [returnOnEquity : Opt({-5, 0, 4, 5, 10, 11, 15, 16, 20, 21}),
     profitMargins : Opt({-5, 0, 4, 5, 10, 11, 15, 16, 20, 21}),
     operatingMargins : Opt({-5, 0, 4, 5, 15, 16, 20, 21}),
     returnOnAssets : Opt({0, 1, 2, 5, 6, 10, 11})]

FundHealthArgs ==
    [debtToEquity : Opt({0, 29, 30, 49, 50, 99, 100, 150, 151, 200, 201}),
     currentRatio : Opt({0, 9, 10, 11, 15, 16, 20, 21}),
     quickRatio : Opt({0, 4, 5, 10, 11, 15, 16}),
     freeCashflow : Opt({-1, 0, 1})]

FundGrowthArgs ==
    [revenueGrowth : Opt({-1, 0, 5, 6, 10, 11, 15, 16, 20, 21}),
     earningsGrowth : Opt({-1, 0, 10, 11, 15, 16, 25, 26}),
     earningsQuarterlyGrowth : Opt({-1, 0, 10, 11, 20, 21})]

FundDividendArgs ==
    [dividendYield : Opt({0, 1, 2, 3, 4, 5}),
     payoutRatio : Opt({-10, 0, 20, 21, 30, 31, 59, 60, 79, 80, 99, 100, 150})]

\* a moving average over w rows is NaN on a table of fewer than w rows
TrendArgs ==
    {ta \in [len : {1, 19, 20, 50, 200},
             price_vs_sma20 : Opt({95, 100, 105}),
             price_vs_sma50 : Opt({95, 100, 105}),
             price_vs_sma200 : Opt({95, 100, 105}),
             returns_20d : {-11, -10, -6, -5, 0, 5, 6, 10, 11}] :
        /\ ta.len < 20 => ta.price_vs_sma20 = Absent /\ ta.returns_20d = 0
        /\ ta.len < 50 => ta.price_vs_sma50 = Absent
        /\ ta.len < 200 => ta.price_vs_sma200 = Absent}

TechMomentumArgs ==
    {ta \in [len : {1, 2, 50},
             rsi : Opt({30, 31, 40, 41, 59, 60, 69, 70}),
             macd_hist : {-2, -1, 0, 1, 2},
             macd_hist_prev : {-2, -1, 0, 1, 2}] :
        /\ ta.len < 2 => ta.macd_hist_prev = 0
        /\ ta.len < 15 => ta.rsi = Absent}

TechVolatilityArgs ==
    [bb_position : Opt({-10, 20, 21, 30, 31, 69, 70, 79, 80, 110}),
     volatility : Opt({19, 20, 29, 30, 50, 51})]

TechVolumeArgs ==
    [volume_ratio : Opt({10, 11, 12, 13}),
     price_change : Opt({-1, 0, 1}),
     volume_10_vs_50 : {79, 80, 120, 121}]

PatternArgs ==
    {ta \in [len : {9, 10, 50},
             position : Opt({0, 29, 30, 70, 71, 100}),
             highs : {-1, 0, 1},
             lows : {-1, 0, 1}] :
        ta.len < 10 => ta.highs = 0 /\ ta.lows = 0}

\* a rows of x, then b rows of y, then c rows of z
Blocks(a, x, b, y, c, z) ==
    [k \in 1..(a + b + c) |-> IF k <= a THEN x ELSE IF k <= a + b THEN y ELSE z]

Reverse(seq) == [k \in 1..Len(seq) |-> seq[Len(seq) + 1 - k]]

\* every list of at most n rows made of three blocks, in either direction
BlockLists(n, x, y, z) ==
    UNION {{Blocks(a, x, b, y, c, z), Reverse(Blocks(a, x, b, y, c, z))} :
            <<a, b, c>> \in {t \in (0..n) \X (0..n) \X (0..n) : t[1] + t[2] + t[3] <= n}}

Query(rows) ==
    {[kind |-> "none", rows |-> <<>>], [kind |-> "raises", rows |-> <<>>]}
        \cup {[kind |-> "ok", rows |-> r] : r \in rows}

RecommendationArgs ==
    Query(BlockLists(MaxRows, [buy_word |-> TRUE, sell_word |-> FALSE],
                     [buy_word |-> FALSE, sell_word |-> TRUE],
                     [buy_word |-> FALSE, sell_word |-> FALSE])
          \cup {<<[buy_word |-> TRUE, sell_word |-> TRUE]>>})

NewsArgs ==
    Query(BlockLists(MaxNews, [pos |-> 1, neg |-> 0], [pos |-> 0, neg |-> 1],
                     [pos |-> 1, neg |-> 1])
          \cup {<<[pos |-> 2, neg |-> 1]>>, <<[pos |-> 0, neg |-> 0]>>})

HolderArgs ==
    {[kind |-> "none", inst_pct |-> 0], [kind |-> "raises", inst_pct |-> 0]}
        \cup [kind : {"ok"}, inst_pct : {0, 19, 20, 40, 41, 60, 61, 80, 81, 100}]

InsiderArgs == Query(BlockLists(MaxRows, "Sale", "Buy", "Other"))

MultibaggerCompositeArgs ==
    Grid(1) \X Grid(1) \X Grid(1) \X Grid(1) \X Grid(2) \X Grid(1)

PillarCompositeArgs == Grid(1) \X Grid(1) \X Grid(1) \X Grid(1) \X Grid(1)

SentimentCompositeArgs ==
    Grid(NEWS_UNIT) \X (Grid(NEWS_UNIT) \cup {10 * NEWS_UNIT, 90 * NEWS_UNIT})
        \X Grid(NEWS_UNIT) \X Grid(NEWS_UNIT)
\* the snapshots quick_multibagger_scan filters
QuickFilterArgs ==
    [fetch : {"ok", "raises"}, malformed : BOOLEAN,
     info : [marketCap : Opt({0, 499, 500, 1999, 2000, 10000, 10001}),
             revenueGrowth : Opt({-5, 0, 14, 15, 30, 31}),
             profitMargins : Opt({-1, 0, 1, 10, 11})]]

DetectArgs ==
    [h : {NewHunter},
     info : [revenueGrowth : Opt({0, 25, 26, 40, 41}),
             sector : Opt({"Mining", "Financial Services", "Healthcare"}),
             pegRatio : Opt({0, 9, 10}),
             heldPercentInsiders : Opt({25, 26}),
             marketCap : Opt({0, 1999, 2000})],
     hist : [volume_ratio : Opt({25, 26}), len : {49, 50, 126},
             momentum_6m : {30, 31}, price_vs_ma50 : {105, 106}]]

\* composite scores in 1/100 of a point
RatingArgs ==
    {0, 2999, 3000, 4499, 4500, 5000, 5499, 5500, 6000, 6499, 6500, 6999, 7000, 7500,
     7999, 8000, 10000}

\* composite scores in 1/(100 * NEWS_UNIT) of a point
SentimentRatingArgs ==
    {s * NEWS_UNIT + d : s \in RatingArgs \ {0, 10000}, d \in {-1, 0}}
        \cup {0, 100 * 100 * NEWS_UNIT}
\* snapshots whose price history has every length around the windows of the
\* momentum rules (a field the code does not read on a short history may
\* hold any value)
HistoryArgs ==
    {[BaseSnapshot EXCEPT !.fetch = f, !.hist = hist] :
        f \in {"ok", "raises"},
        hist \in {[BaseHist EXCEPT !.len = n, !.momentum_6m = m6, !.momentum_3m = m3,
                                   !.price_vs_ma200 = p200] :
                    n \in {0, 49, 50, 62, 63, 125, 126, 199, 200, 250},
                    m6 \in {0, 60}, m3 \in {0, 35}, p200 \in {100, 110}}}
\* the sub-scores the four sentiment queries can produce
SubScoreArgs ==
    {analyze_analyst_recommendations(q) : q \in RecommendationArgs}
        \X {analyze_news_sentiment(q) : q \in NewsArgs}
        \X {analyze_institutional_holdings(q) : q \in HolderArgs}
        \X {analyze_insider_activity(q) : q \in InsiderArgs}
\* snapshots whose 6-month history has every length around the windows of
\* analyze_stock_simplified; the RSI is NaN on fewer than 15 rows
SimplifiedArgs ==
    {[BaseSnapshot EXCEPT !.fetch = f, !.hist6 = hist] :
        f \in {"ok", "raises"},
        hist \in {h6 \in [len : {0, 1, 14, 15, 19, 20, 59, 60, 125},
                          returns_1m : {-11, -10, 0, 10, 11},
                          returns_3m : {12},
                          rsi : Opt({29, 30, 39, 40, 41, 59, 60, 70, 71}),
                          close : {1000}] :
                    h6.len < 15 => h6.rsi = Absent}}

Calls(fn, args) == [fn : {fn}, arg : args, out : {<<>>}, done : {FALSE}]

ScorerInit ==
    /\ \/ call \in Calls("_calculate_size_score", SizeArgs)
       \/ call \in Calls("_calculate_growth_score", GrowthArgs)
       \/ call \in Calls("_calculate_valuation_score", ValuationArgs)
       \/ call \in Calls("_calculate_quality_score", QualityArgs)
       \/ call \in Calls("_calculate_catalyst_score", CatalystArgs)
       \/ call \in Calls("_calculate_momentum_score", MomentumArgs)
       \/ call \in Calls("_assess_risk", RiskArgs)
       \/ call \in Calls("_estimate_return_potential", ReturnArgs)
       \/ call \in Calls("multibagger_score", MultibaggerCompositeArgs)
       \/ call \in Calls("_analyze_valuation", FundValuationArgs)
       \/ call \in Calls("_analyze_profitability", FundProfitabilityArgs)
       \/ call \in Calls("_analyze_financial_health", FundHealthArgs)
       \/ call \in Calls("_analyze_growth", FundGrowthArgs)
       \/ call \in Calls("_analyze_dividends", FundDividendArgs)
       \/ call \in Calls("FundamentalAnalyzer.analyze", PillarCompositeArgs)
       \/ call \in Calls("_analyze_trend", TrendArgs)
       \/ call \in Calls("_analyze_momentum", TechMomentumArgs)
       \/ call \in Calls("_analyze_volatility", TechVolatilityArgs)
       \/ call \in Calls("_analyze_volume", TechVolumeArgs)
       \/ call \in Calls("_analyze_patterns", PatternArgs)
       \/ call \in Calls("TechnicalAnalyzer.analyze", PillarCompositeArgs)
       \/ call \in Calls("_analyze_analyst_recommendations", RecommendationArgs)
       \/ call \in Calls("_analyze_news_sentiment", NewsArgs)
       \/ call \in Calls("_analyze_institutional_holdings", HolderArgs)
       \/ call \in Calls("_analyze_insider_activity", InsiderArgs)
       \/ call \in Calls("SentimentAnalyzer.analyze", SentimentCompositeArgs)
       \/ call \in Calls("quick_multibagger_scan.filter", QuickFilterArgs)
       \/ call \in Calls("_detect_catalysts", DetectArgs)
       \/ call \in Calls("FundamentalAnalyzer.rating", RatingArgs)
       \/ call \in Calls("_overall_signal", RatingArgs)
       \/ call \in Calls("SentimentAnalyzer.sentiment", SentimentRatingArgs)
       \/ call \in Calls("analyze_multibagger_potential", HistoryArgs)
       \/ call \in Calls("SentimentAnalyzer.analyze.total_score", SubScoreArgs)
       \/ call \in Calls("analyze_stock_simplified", SimplifiedArgs)
    /\ hunter = NewHunter
    /\ market = Market
    /\ scanner = "none"
    /\ tickers = <<>>
    /\ param = [none |-> TRUE]
    /\ idx = 0
    /\ analysed = <<>>
    /\ results = <<>>
    /\ pc = "idle"
    /\ output = <<>>

\* the pending call of fn returns out
Return(fn, out) ==
    /\ call.fn = fn /\ ~call.done
    /\ call' = [call EXCEPT !.out = out, !.done = TRUE]
    /\ UNCHANGED <<hunter, market, scanner, tickers, param, idx, analysed, results, pc, output>>

call_calculate_size_score ==
    Return("_calculate_size_score", calculate_size_score(call.arg))

call_calculate_growth_score ==
    Return("_calculate_growth_score", calculate_growth_score(call.arg))

call_calculate_valuation_score ==
    Return("_calculate_valuation_score", calculate_valuation_score(call.arg))

call_calculate_quality_score ==
    Return("_calculate_quality_score", calculate_quality_score(call.arg))

call_calculate_catalyst_score ==
    Return("_calculate_catalyst_score",
           calculate_catalyst_score(call.arg.h, call.arg.info, call.arg.hist))

call_calculate_momentum_score ==
    Return("_calculate_momentum_score", calculate_momentum_score(call.arg))

call_assess_risk ==
    Return("_assess_risk", assess_risk(call.arg.info, call.arg.hist))

call_estimate_return_potential ==
    Return("_estimate_return_potential",
           estimate_return_potential(call.arg.score, call.arg.num_catalysts))

call_multibagger_composite ==
    Return("multibagger_score",
           multibagger_composite(call.arg[1], call.arg[2], call.arg[3], call.arg[4],
                                 call.arg[5], call.arg[6]))

call_analyze_valuation ==
    Return("_analyze_valuation", analyze_valuation(call.arg))

call_analyze_profitability ==
    Return("_analyze_profitability", analyze_profitability(call.arg))

call_analyze_financial_health ==
    Return("_analyze_financial_health", analyze_financial_health(call.arg))

call_analyze_growth ==
    Return("_analyze_growth", analyze_growth(call.arg))

call_analyze_dividends ==
    Return("_analyze_dividends", analyze_dividends(call.arg))

call_fundamental_composite ==
    Return("FundamentalAnalyzer.analyze",
           fundamental_composite(call.arg[1], call.arg[2], call.arg[3], call.arg[4],
                                 call.arg[5]))

call_analyze_trend ==
    Return("_analyze_trend", analyze_trend(call.arg))

call_analyze_momentum ==
    Return("_analyze_momentum", analyze_momentum(call.arg))

call_analyze_volatility ==
    Return("_analyze_volatility", analyze_volatility(call.arg))

call_analyze_volume ==
    Return("_analyze_volume", analyze_volume(call.arg))

call_analyze_patterns ==
    Return("_analyze_patterns", analyze_patterns(call.arg))

call_technical_composite ==
    Return("TechnicalAnalyzer.analyze",
           technical_composite(call.arg[1], call.arg[2], call.arg[3], call.arg[4],
                               call.arg[5]))

call_analyze_analyst_recommendations ==
    Return("_analyze_analyst_recommendations", analyze_analyst_recommendations(call.arg))

call_analyze_news_sentiment ==
    Return("_analyze_news_sentiment", analyze_news_sentiment(call.arg))

call_analyze_institutional_holdings ==
    Return("_analyze_institutional_holdings", analyze_institutional_holdings(call.arg))

call_analyze_insider_activity ==
    Return("_analyze_insider_activity", analyze_insider_activity(call.arg))

call_sentiment_composite ==
    Return("SentimentAnalyzer.analyze",
           sentiment_composite(call.arg[1], call.arg[2], call.arg[3], call.arg[4]))
call_quick_filter ==
    Return("quick_multibagger_scan.filter", quick_filter("TICK.JK", call.arg))

call_detect_catalysts ==
    Return("_detect_catalysts",
           detect_catalysts(call.arg.h, call.arg.info, call.arg.hist))

call_fundamental_rating ==
    Return("FundamentalAnalyzer.rating", fundamental_rating(call.arg))

call_overall_signal ==
    Return("_overall_signal", overall_signal(call.arg))

call_sentiment_label ==
    Return("SentimentAnalyzer.sentiment", sentiment_label(call.arg))
call_analyze_snapshot ==
    Return("analyze_multibagger_potential",
           analyze_multibagger_potential(NewHunter, "TICK.JK", call.arg))
\* SentimentAnalyzer.analyze from the four sub-scores on
call_sentiment_total ==
    LET total_score == sentiment_composite(call.arg[1], call.arg[2], call.arg[3],
                                           call.arg[4])
    IN Return("SentimentAnalyzer.analyze.total_score",
              [score |-> total_score, sentiment |-> sentiment_label(total_score)])
call_analyze_stock_simplified ==
    Return("analyze_stock_simplified", analyze_stock_simplified("TICK.JK", call.arg))

ScorerNext ==
    \/ call_calculate_size_score
    \/ call_calculate_growth_score
    \/ call_calculate_valuation_score
    \/ call_calculate_quality_score
    \/ call_calculate_catalyst_score
    \/ call_calculate_momentum_score
    \/ call_assess_risk
    \/ call_estimate_return_potential
    \/ call_multibagger_composite
    \/ call_analyze_valuation
    \/ call_analyze_profitability
    \/ call_analyze_financial_health
    \/ call_analyze_growth
    \/ call_analyze_dividends
    \/ call_fundamental_composite
    \/ call_analyze_trend
    \/ call_analyze_momentum
    \/ call_analyze_volatility
    \/ call_analyze_volume
    \/ call_analyze_patterns
    \/ call_technical_composite
    \/ call_analyze_analyst_recommendations
    \/ call_analyze_news_sentiment
    \/ call_analyze_institutional_holdings
    \/ call_analyze_insider_activity
    \/ call_sentiment_composite
    \/ call_quick_filter
    \/ call_detect_catalysts
    \/ call_fundamental_rating
    \/ call_overall_signal
    \/ call_sentiment_label
    \/ call_analyze_snapshot
    \/ call_sentiment_total
    \/ call_analyze_stock_simplified

SpecScorers == ScorerInit /\ [][ScorerNext]_vars

----------------------------------------------------------------------------
(* A hunter analysing tickers one call after another *)

MaxCalls == 3

HunterInit ==
    /\ call = NoCall
    /\ hunter = NewHunter
    /\ market = Market
    /\ scanner = "none"
    /\ tickers = <<>>
    /\ param = [none |-> TRUE]
    /\ idx = 0
    /\ analysed = <<>>
    /\ results = <<>>
    /\ pc = "idle"
    /\ output = <<>>

\* hunter.analyze_multibagger_potential(ticker)
call_analyze_multibagger_potential ==
    /\ pc = "idle" /\ idx < MaxCalls
    /\ \E ticker \in Universe :
        /\ results' = Append(results,
                             analyze_multibagger_potential(hunter, ticker, market[ticker]))
        /\ hunter' = after_analyze(hunter, ticker, market[ticker])
        /\ analysed' = Append(analysed, ticker)
    /\ idx' = idx + 1
    /\ UNCHANGED <<call, market, scanner, tickers, param, pc, output>>

HunterNext == call_analyze_multibagger_potential

SpecHunter == HunterInit /\ [][HunterNext]_vars

----------------------------------------------------------------------------
(* Properties *)

Returned(fn) == call.fn = fn /\ call.done

WholePointScorers ==
    {"_calculate_size_score", "_calculate_growth_score", "_calculate_valuation_score",
     "_calculate_quality_score", "_calculate_momentum_score",
     "_analyze_valuation", "_analyze_profitability", "_analyze_financial_health",
     "_analyze_growth", "_analyze_dividends",
     "_analyze_trend", "_analyze_momentum", "_analyze_volatility", "_analyze_volume",
     "_analyze_patterns"}

SentimentScorers ==
    {"_analyze_analyst_recommendations", "_analyze_news_sentiment",
     "_analyze_institutional_holdings", "_analyze_insider_activity"}

\* C1: every component scorer (six multibagger, five fundamental, five
\* technical, four sentiment) returns a value in [0,100], whatever the metric
\* inputs: absent, zero, negative or beyond every threshold.  The catalyst
\* score is in half points and the sentiment sub-scores in 1/NEWS_UNIT point.
C1_ScorerRange ==
    /\ (call.done /\ call.fn \in WholePointScorers) => call.out \in 0..100
    /\ Returned("_calculate_catalyst_score") => call.out \in 0..(2 * 100)
    /\ (call.done /\ call.fn \in SentimentScorers) =>
            (0 <= call.out /\ call.out <= 100 * NEWS_UNIT)

\* _analyze_valuation on metrics whose bonuses add up to 105 returns 100
C1_Witness ==
    /\ Returned("_analyze_valuation")
    /\ call.arg.trailingPE = Some(14) /\ call.arg.priceToBook = Some(9)
    /\ call.arg.pegRatio = Some(9) /\ call.arg.priceToSalesTrailing12Months = Some(19)
    /\ call.out = 100

\* C2: each composite is the weighted sum of its components, with weights
\* (in %) 20/25/15/15/15/10, 25/25/20/20/10, 30/25/15/15/15 and 35/25/25/15
\* that add up to 100, so components in [0,100] give a composite in [0,100].
C2_WeightedComposite ==
    /\ Returned("multibagger_score") =>
        LET a == call.arg IN
        /\ 20 + 25 + 15 + 15 + 15 + 10 = 100
        /\ call.out = 2 * (20 * a[1] + 25 * a[2] + 15 * a[3] + 15 * a[4] + 10 * a[6])
                        + 15 * a[5]
        /\ 0 <= call.out /\ call.out <= 100 * 200
    /\ Returned("FundamentalAnalyzer.analyze") =>
        LET a == call.arg IN
        /\ 25 + 25 + 20 + 20 + 10 = 100
        /\ call.out = 25 * a[1] + 25 * a[2] + 20 * a[3] + 20 * a[4] + 10 * a[5]
        /\ 0 <= call.out /\ call.out <= 100 * 100
    /\ Returned("TechnicalAnalyzer.analyze") =>
        LET a == call.arg IN
        /\ 30 + 25 + 15 + 15 + 15 = 100
        /\ call.out = 30 * a[1] + 25 * a[2] + 15 * a[3] + 15 * a[4] + 15 * a[5]
        /\ 0 <= call.out /\ call.out <= 100 * 100
    /\ Returned("SentimentAnalyzer.analyze") =>
        LET a == call.arg IN
        /\ 35 + 25 + 25 + 15 = 100
        /\ call.out = 35 * a[1] + 25 * a[2] + 25 * a[3] + 15 * a[4]
        /\ 0 <= call.out /\ call.out <= 100 * 100 * NEWS_UNIT

\* the multibagger composite of six scores of 100 is 100
C2_Witness ==
    /\ Returned("multibagger_score")
    /\ call.arg = <<100, 100, 100, 100, 2 * 100, 100>>
    /\ call.out = 100 * 200

\* the tickers of a list of records
TickersOf(records) == [k \in DOMAIN records |-> records[k].ticker]

\* C3, as the specification states it: the result of scan_market is in
\* descending order of multibagger_score, and records of equal score keep
\* the order their tickers have in the input list.
C3_DescendingStable ==
    (scanner = "scan_market" /\ pc = "done") =>
        /\ \A i, j \in DOMAIN output :
                i < j => output[i].multibagger_score >= output[j].multibagger_score
        /\ output = sort_reverse(results,
                        [k \in DOMAIN results |-> results[k].multibagger_score])

\* the list the scan iterates over, as the tickers it analyses
ScanInput ==
    IF scanner = "quick_scan" THEN Head_n(tickers, param.limit)
    ELSE IF scanner = "custom_scan" \/ (scanner = "deep_market_scan" /\ ~param.engine)
        THEN [k \in DOMAIN tickers |-> with_jk(tickers[k])]
    ELSE tickers

\* the ticker's fetch or scoring raises, or the fetch returns no data
Fails(t) ==
    LET snap == market[t] IN
    IF scanner = "scan_market"
        THEN snap.fetch = "raises" \/ snap.malformed \/ snap.hist.len < 50
    ELSE IF scanner = "quick_multibagger_scan"
        THEN snap.fetch = "raises" \/ snap.malformed
    ELSE IF scanner = "deep_market_scan" /\ param.engine
        THEN snap.oracle = "raises"
    ELSE snap.fetch = "raises" \/ snap.malformed \/ snap.hist6.len = 0

OutputTickers ==
    IF scanner = "quick_multibagger_scan" THEN output ELSE TickersOf(output)

\* C4: in every batch scan a ticker whose fetch or scoring fails contributes
\* no record, every ticker after it is still analysed (the analysis log is
\* the whole input, in order), and the market_scanner scans return exactly
\* the non-failing tickers in input order.
C4_FailureIsolation ==
    /\ scanner # "none" => analysed = SubSeq(ScanInput, 1, idx)
    /\ pc = "done" =>
        /\ idx = Len(ScanInput)
        /\ \A k \in DOMAIN output : ~Fails(OutputTickers[k])
        /\ scanner \in {"quick_scan", "custom_scan", "deep_market_scan"} =>
            LET Works(t) == ~Fails(t) IN OutputTickers = SelectSeq(ScanInput, Works)

\* custom_scan on a list that starts with a ticker whose fetch raises
\* returns the two later tickers
C4_Witness ==
    /\ scanner = "custom_scan" /\ pc = "done"
    /\ Len(tickers) = 3 /\ tickers[1] = "EEEE.JK"
    /\ OutputTickers = <<"GGGG.JK", "BBBB.JK">>

Occurrences(seq, x) == Cardinality({k \in DOMAIN seq : seq[k] = x})

\* C5: scan_market returns exactly the tickers whose analysis succeeded with
\* multibagger_score >= 70: no record below 70, none at or above 70 omitted,
\* and one record at most for each occurrence of a ticker in the input.
C5_ThresholdFilter ==
    (scanner = "scan_market" /\ pc = "done") =>
        /\ \A k \in DOMAIN output : output[k].multibagger_score >= 70 * 200
        /\ \A t \in Universe :
            LET analysis == analyze_multibagger_potential(NewHunter, t, market[t])
                qualifies == ~analysis.none /\ analysis.multibagger_score >= 70 * 200
            IN Occurrences(TickersOf(output), t)
                    = IF qualifies THEN Occurrences(tickers, t) ELSE 0
        /\ Len(output) <= Len(tickers)

\* a list with a ticker scoring 53.5, one scoring exactly 70 and one
\* scoring 91: two records
C5_Witness ==
    /\ scanner = "scan_market" /\ pc = "done"
    /\ tickers = <<"DDDD.JK", "IIII.JK", "BBBB.JK">>
    /\ Len(output) = 2
    /\ \E k \in DOMAIN output :
            output[k].ticker = "IIII.JK" /\ output[k].multibagger_score = 70 * 200

\* C6: _calculate_size_score is 0 for an unknown or zero market cap, 40 below
\* 0.5B, 100 on [0.5B,1B), 85 on [1B,3B), 70 on [3B,5B), 50 on [5B,10B) and
\* 30 from 10B on (market cap in units of 1e6 USD).
C6_SizeTable ==
    Returned("_calculate_size_score") =>
        LET cap == call.arg.marketCap IN
        call.out = IF cap = Absent \/ cap = Some(0) THEN 0
                   ELSE IF cap[1] < 500 THEN 40
                   ELSE IF 500 <= cap[1] /\ cap[1] < 1000 THEN 100
                   ELSE IF 1000 <= cap[1] /\ cap[1] < 3000 THEN 85
                   ELSE IF 3000 <= cap[1] /\ cap[1] < 5000 THEN 70
                   ELSE IF 5000 <= cap[1] /\ cap[1] < 10000 THEN 50
                   ELSE 30

\* a market cap of exactly 0.5B scores 100
C6_Witness ==
    /\ Returned("_calculate_size_score")
    /\ call.arg.marketCap = Some(500)
    /\ call.out = 100

BucketRank(bucket) ==
    CASE bucket = "500-1000%+ (10-bagger potential)" -> 4
      [] bucket = "300-500% (4-6 bagger)" -> 3
      [] bucket = "200-300% (3-4 bagger)" -> 2
      [] bucket = "100-200% (2-3 bagger)" -> 1
      [] bucket = "50-100% (modest multibagger)" -> 0

\* C7: _estimate_return_potential is the joint table over (score, catalyst
\* count): top bucket iff score >= 85 and catalysts >= 4, else 300-500% iff
\* >= 80 and >= 3, else 200-300% iff >= 75 and >= 2, else 100-200% iff
\* score >= 70, else the bottom bucket; (90, 5) gives the top bucket, and no
\* lower score or lower catalyst count gives a better bucket.
C7_ReturnTable ==
    Returned("_estimate_return_potential") =>
        LET s == call.arg.score
            c == call.arg.num_catalysts
        IN /\ BucketRank(call.out) =
                    IF s >= 85 * 200 /\ c >= 4 THEN 4
                    ELSE IF s >= 80 * 200 /\ c >= 3 THEN 3
                    ELSE IF s >= 75 * 200 /\ c >= 2 THEN 2
                    ELSE IF s >= 70 * 200 THEN 1
                    ELSE 0
           /\ (s = 90 * 200 /\ c = 5) => call.out = "500-1000%+ (10-bagger potential)"
           /\ \A a \in ReturnArgs :
                (a.score <= s /\ a.num_catalysts <= c) =>
                    BucketRank(estimate_return_potential(a.score, a.num_catalysts))
                        <= BucketRank(call.out)

\* (90, 5) has returned the top bucket
C7_Witness ==
    /\ Returned("_estimate_return_potential")
    /\ call.arg.score = 90 * 200 /\ call.arg.num_catalysts = 5
    /\ call.out = "500-1000%+ (10-bagger potential)"

\* C8, as the specification states it: a score of 72 with no catalyst gives
\* the lowest bucket.
C8_AsStated ==
    (Returned("_estimate_return_potential")
        /\ call.arg.score = 72 * 200 /\ call.arg.num_catalysts = 0)
    => call.out = "50-100% (modest multibagger)"

\* C8, amended: a score of 72 with no catalyst gives '100-200% (2-3 bagger)';
\* the lowest bucket is returned only for scores below 70.
C8_SeventyTwoNoCatalyst ==
    Returned("_estimate_return_potential") =>
        /\ (call.arg.score = 72 * 200 /\ call.arg.num_catalysts = 0)
                => call.out = "100-200% (2-3 bagger)"
        /\ call.out = "50-100% (modest multibagger)" => call.arg.score < 70 * 200

\* (72, 0) has returned the second-lowest bucket
C8_Witness ==
    /\ Returned("_estimate_return_potential")
    /\ call.arg.score = 72 * 200 /\ call.arg.num_catalysts = 0
    /\ call.out = "100-200% (2-3 bagger)"

\* C9: _assess_risk returns VERY_HIGH iff the tally is >= 6, HIGH iff 4 or 5,
\* MEDIUM iff 2 or 3, LOW iff 0 or 1, where the tally adds the market-cap
\* (0..3), leverage (0..2), profitability (0, 2 or 3) and volatility (0..2)
\* contributions and lies in 0..10.
C9_RiskLevels ==
    Returned("_assess_risk") =>
        LET cap == risk_market_cap(call.arg.info)
            leverage == risk_debt(call.arg.info)
            profitability == risk_profitability(call.arg.info)
            volatility == risk_volatility(call.arg.hist)
            tally == cap + leverage + profitability + volatility
        IN /\ cap \in 0..3 /\ leverage \in 0..2
           /\ profitability \in {0, 2, 3} /\ volatility \in 0..2
           /\ tally \in 0..10
           /\ call.out = "VERY_HIGH" <=> tally >= 6
           /\ call.out = "HIGH" <=> tally \in {4, 5}
           /\ call.out = "MEDIUM" <=> tally \in {2, 3}
           /\ call.out = "LOW" <=> tally \in {0, 1}

\* a loss-making, leveraged, volatile micro cap: tally 10, VERY_HIGH
C9_Witness ==
    /\ Returned("_assess_risk")
    /\ risk_points(call.arg.info, call.arg.hist) = 10
    /\ call.out = "VERY_HIGH"

\* C10: analyze_multibagger_potential is deterministic: calls on the same
\* snapshot return the same record whatever was analysed in between, and no
\* call changes min_score or the sector-theme table.
C10_Deterministic ==
    /\ hunter = NewHunter
    /\ scanner = "none" =>
        \A i, j \in DOMAIN results :
            (DOMAIN results = DOMAIN analysed /\ analysed[i] = analysed[j])
                => results[i] = results[j]

\* the same ticker analysed before and after another one
C10_Witness ==
    /\ scanner = "none" /\ Len(results) = 3
    /\ analysed = <<"BBBB.JK", "CCCC.JK", "BBBB.JK">>
    /\ ~results[1].none /\ results[1] = results[3]


\* C11: _analyze_valuation returns exactly 50 when trailingPE, priceToBook,
\* pegRatio and priceToSalesTrailing12Months are all absent, and the score is
\* the clamped baseline plus the contributions of the present fields alone:
\* each absent field contributes 0.
ValuationFields ==
    {"trailingPE", "priceToBook", "pegRatio", "priceToSalesTrailing12Months"}

ValuationAbsent == [f \in ValuationFields |-> Absent]

ValuationContribution(info, f) ==
    IF info[f] = Absent THEN 0
    ELSE analyze_valuation([ValuationAbsent EXCEPT ![f] = info[f]]) - 50

C11_ValuationBaseline ==
    Returned("_analyze_valuation") =>
        /\ call.arg = ValuationAbsent => call.out = 50
        /\ call.out = Clamp(50 + ValuationContribution(call.arg, "trailingPE")
                               + ValuationContribution(call.arg, "priceToBook")
                               + ValuationContribution(call.arg, "pegRatio")
                               + ValuationContribution(call.arg,
                                                       "priceToSalesTrailing12Months"))

C11_Witness ==
    /\ Returned("_analyze_valuation")
    /\ call.arg = ValuationAbsent
    /\ call.out = 50

\* C12: every component scorer returns the neutral baseline 50 when the inputs
\* it requires are all absent: the multibagger size, growth, valuation and
\* quality scorers, the five fundamental scorers, and the four sentiment
\* sub-scores when their data is missing.
MetricScorers ==
    {"_calculate_size_score", "_calculate_growth_score", "_calculate_valuation_score",
     "_calculate_quality_score", "_analyze_valuation", "_analyze_profitability",
     "_analyze_financial_health", "_analyze_growth", "_analyze_dividends"}

AllAbsent ==
    IF call.fn \in MetricScorers
    THEN \A f \in DOMAIN call.arg : call.arg[f] = Absent
    ELSE call.fn \in SentimentScorers /\ call.arg.kind = "none"

C12_AsStated ==
    (call.done /\ AllAbsent) =>
        IF call.fn \in SentimentScorers THEN call.out = 50 * NEWS_UNIT
        ELSE call.out = 50

\* C13: quick_multibagger_scan admits a ticker as a candidate iff
\* 0.5B <= marketCap <= 10B and revenueGrowth >= 15% and profitMargins >= 0,
\* the boundary values included; a ticker with one of the three metrics absent
\* or whose fetch raises is rejected.
AdmittedAsStated(snap) ==
    /\ snap.fetch = "ok"
    /\ ~snap.malformed
    /\ snap.info.marketCap # Absent
    /\ snap.info.revenueGrowth # Absent
    /\ snap.info.profitMargins # Absent
    /\ 500 <= snap.info.marketCap[1] /\ snap.info.marketCap[1] <= 10000
    /\ snap.info.revenueGrowth[1] >= 15
    /\ snap.info.profitMargins[1] >= 0

C13_AsStated ==
    Returned("quick_multibagger_scan.filter") =>
        (Len(call.out) = 1 <=> AdmittedAsStated(call.arg))

\* C14: quick_multibagger_scan(tickers, top_n) with top_n >= 0 returns at most
\* top_n tickers, all taken from the input; every candidate tally is in 0..8
\* (3 for cap < 2B, 3 for revenue growth > 30%, 2 for profit margin > 10%);
\* the returned tickers are in non-increasing tally order, no omitted candidate
\* has a strictly higher tally than a returned one, and candidates with equal
\* tally keep their input order.
Tally(t) ==
    LET info == Market[t].info
    IN (IF info.marketCap[1] < 2000 THEN 3 ELSE 0)
       + (IF info.revenueGrowth[1] > 30 THEN 3 ELSE 0)
       + (IF info.profitMargins[1] > 10 THEN 2 ELSE 0)

\* p[k] is the candidate returned at place k
Selection(p) ==
    LET m == Len(output)
        n == Len(results)
    IN /\ \A k \in 1..m : output[k] = results[p[k]][1]
       /\ \A k, l \in 1..m : k < l =>
            \/ results[p[k]][2] > results[p[l]][2]
            \/ results[p[k]][2] = results[p[l]][2] /\ p[k] < p[l]
       /\ \A j \in 1..n : (\A k \in 1..m : p[k] # j) =>
            \A k \in 1..m :
                \/ results[j][2] < results[p[k]][2]
                \/ results[j][2] = results[p[k]][2] /\ p[k] < j

C14_TopNByTally ==
    (scanner = "quick_multibagger_scan" /\ pc = "done") =>
        /\ Len(output) <= param.top_n
        /\ Len(output) = Min(param.top_n, Len(results))
        /\ \A k \in 1..Len(output) : \E i \in 1..Len(tickers) : output[k] = tickers[i]
        /\ \A j \in 1..Len(results) :
            /\ results[j][2] = Tally(results[j][1])
            /\ results[j][2] \in 0..8
        /\ \E p \in [1..Len(output) -> 1..Len(results)] : Selection(p)

C14_Witness ==
    /\ scanner = "quick_multibagger_scan" /\ pc = "done"
    /\ param.top_n = 2
    /\ tickers = <<"BBBB.JK", "FFFF.JK", "GGGG.JK">>
    /\ results = << <<"BBBB.JK", 5>>, <<"FFFF.JK", 0>>, <<"GGGG.JK", 8>> >>
    /\ output = <<"GGGG.JK", "BBBB.JK">>

\* C15: an absent marketCap is not treated as a market cap of 0: when marketCap
\* is absent from the snapshot, _assess_risk adds no market-cap risk points and
\* _detect_catalysts does not emit SMALL_CAP_GROWTH.
C15_AsStated ==
    /\ (Returned("_assess_risk") /\ call.arg.info.marketCap = Absent) =>
            call.out = risk_level(risk_debt(call.arg.info)
                                  + risk_profitability(call.arg.info)
                                  + risk_volatility(call.arg.hist))
    /\ (Returned("_detect_catalysts") /\ call.arg.info.marketCap = Absent) =>
            \A k \in DOMAIN call.out : call.out[k] # "SMALL_CAP_GROWTH"

\* C16 (as stated): in each of the three pillars the rating follows the same
\* tiers: score >= 80 gives the top tier, a score in [45,65) gives HOLD /
\* NEUTRAL, a score in [30,45) gives SELL / BEARISH, a score below 30 gives
\* STRONG SELL / VERY BEARISH.
RatingCalls ==
    {"FundamentalAnalyzer.rating", "_overall_signal", "SentimentAnalyzer.sentiment"}

\* the size of one point in the unit of the pillar's composite
RatingPoint(fn) == IF fn = "SentimentAnalyzer.sentiment" THEN 100 * NEWS_UNIT ELSE 100

\* 5 = top tier ... 1 = bottom tier
TierRank(label) ==
    CASE label \in {"STRONG BUY", "VERY BULLISH"} -> 5
      [] label \in {"BUY", "BULLISH"} -> 4
      [] label \in {"HOLD", "NEUTRAL"} -> 3
      [] label \in {"SELL", "BEARISH"} -> 2
      [] label \in {"STRONG SELL", "VERY BEARISH"} -> 1

C16_AsStated ==
    (call.done /\ call.fn \in RatingCalls) =>
        LET pt == RatingPoint(call.fn)
            s == call.arg
            tier == TierRank(call.out)
        IN /\ s >= 80 * pt => tier = 5
           /\ (45 * pt <= s /\ s < 65 * pt) => tier = 3
           /\ (30 * pt <= s /\ s < 45 * pt) => tier = 2
           /\ s < 30 * pt => tier = 1

\* C16 (amended): the cutoffs are per pillar: 80 / 65 / 45 / 30 for the
\* fundamental rating, 70 / 55 / 45 / 30 for the technical signal and the
\* sentiment label. Each pillar's five tiers partition [0,100], each pillar
\* uses its own label set, and the tier never improves when the score decreases.
RatingCutoffs(fn) ==
    IF fn = "FundamentalAnalyzer.rating" THEN <<30, 45, 65, 80>> ELSE <<30, 45, 55, 70>>

RatingLabels(fn) ==
    IF fn = "SentimentAnalyzer.sentiment"
    THEN {"VERY BULLISH", "BULLISH", "NEUTRAL", "BEARISH", "VERY BEARISH"}
    ELSE {"STRONG BUY", "BUY", "HOLD", "SELL", "STRONG SELL"}

RatingOf(fn, s) ==
    CASE fn = "FundamentalAnalyzer.rating" -> fundamental_rating(s)
      [] fn = "_overall_signal" -> overall_signal(s)
      [] fn = "SentimentAnalyzer.sentiment" -> sentiment_label(s)

RatingInputs(fn) ==
    IF fn = "SentimentAnalyzer.sentiment" THEN SentimentRatingArgs ELSE RatingArgs

C16_PerPillarTiers ==
    (call.done /\ call.fn \in RatingCalls) =>
        LET pt == RatingPoint(call.fn)
            cut == RatingCutoffs(call.fn)
            s == call.arg
        IN /\ call.out \in RatingLabels(call.fn)
           /\ TierRank(call.out) = 1 + Cardinality({k \in 1..4 : s >= cut[k] * pt})
           /\ \A s2 \in RatingInputs(call.fn) :
                s2 <= s => TierRank(RatingOf(call.fn, s2)) <= TierRank(call.out)

C16_Witness ==
    /\ Returned("_overall_signal")
    /\ call.arg = 60 * 100
    /\ call.out = "BUY"

\* C17: when an exception occurs while a scorer is computing, no partially
\* accumulated score is returned: the scorer hands back no score and the
\* exception reaches the per-ticker boundary.
\* (the exceptions of the model: an iloc[-n] beyond a short table in the
\* technical scorers, a holder / news / recommendation query that raises)
ScorerRaises ==
    \/ call.fn = "_analyze_trend" /\ call.arg.len < 20
    \/ call.fn = "_analyze_momentum" /\ call.arg.len < 2
    \/ call.fn = "_analyze_patterns" /\ call.arg.len < 10
    \/ call.fn \in SentimentScorers /\ call.arg.kind = "raises"

C17_AsStated ==
    (call.done /\ ScorerRaises) => call.out \notin 0..(100 * NEWS_UNIT)

\* C18: when the price history is shorter than an indicator's window (SMA_200,
\* SMA_50, SMA_20 undefined), _analyze_trend treats that indicator as absent:
\* the rules that compare against it add neither a bonus nor a penalty.
DefinedOnly(p, points) ==
    IF p = Absent THEN 0 ELSE IF p[1] > 100 THEN points ELSE -points

C18_AsStated ==
    Returned("_analyze_trend") =>
        LET ta == call.arg
            alignment == IF Lt(ta.price_vs_sma20, ta.price_vs_sma50)
                            /\ Lt(ta.price_vs_sma50, ta.price_vs_sma200) THEN 15
                         ELSE IF Gt(ta.price_vs_sma20, ta.price_vs_sma50)
                                 /\ Gt(ta.price_vs_sma50, ta.price_vs_sma200) THEN -15
                         ELSE 0
            strength == IF ta.returns_20d > 10 THEN 10
                        ELSE IF ta.returns_20d > 5 THEN 5
                        ELSE IF ta.returns_20d < -10 THEN -10
                        ELSE IF ta.returns_20d < -5 THEN -5
                        ELSE 0
        IN call.out = Clamp(50 + DefinedOnly(ta.price_vs_sma20, 10)
                               + DefinedOnly(ta.price_vs_sma50, 15)
                               + DefinedOnly(ta.price_vs_sma200, 20)
                               + alignment + strength)

\* C19: catalyst detection never feeds back into scores: the six component
\* scores and multibagger_score of a result are the same whatever tag list
\* _detect_catalysts returns; the list influences only the fields catalysts,
\* num_catalysts and return_potential; the hunter's state and the snapshots are
\* left unchanged.
TagLists ==
    {<<>>, <<"SECTOR_TAILWIND">>,
     <<"REVENUE_ACCELERATION", "SECTOR_TAILWIND", "UNDERVALUED_GROWTH">>,
     <<"REVENUE_ACCELERATION", "SECTOR_TAILWIND", "UNDERVALUED_GROWTH",
       "INSIDER_CONVICTION", "SMALL_CAP_GROWTH">>}

CatalystFields == {"catalysts", "num_catalysts", "return_potential"}

C19_CatalystsOrthogonal ==
    /\ hunter = NewHunter
    /\ market = Market
    /\ \A k \in 1..Len(results) : ~results[k].none =>
        \A T \in TagLists :
            LET t == analysed[k]
                r == analysis_record(hunter, t, market[t], T)
            IN /\ \A f \in (DOMAIN results[k]) \ CatalystFields : r[f] = results[k][f]
               /\ r.catalysts = T
               /\ r.num_catalysts = Len(T)

C19_Witness ==
    /\ scanner = "none" /\ Len(results) = 1 /\ ~results[1].none
    /\ results[1].num_catalysts >= 4
    /\ LET r == analysis_record(hunter, analysed[1], market[analysed[1]], <<>>)
       IN /\ r.return_potential # results[1].return_potential
          /\ r.multibagger_score = results[1].multibagger_score
          /\ r.catalyst_score = results[1].catalyst_score

\* C20: scan_market(tickers) terminates for every finite ticker list: it calls
\* the per-ticker analysis exactly once per list element, strictly in input
\* order, and reaches the filter-and-sort step whatever subset of the analyses
\* fail or return no data (no retry, no early abort).
C20_ScanMarketTerminates ==
    /\ [](analysed = SubSeq(tickers, 1, idx))
    /\ [][\/ /\ idx < Len(tickers)
             /\ idx' = idx + 1
             /\ analysed' = Append(analysed, tickers[idx + 1])
             /\ pc' = "loop"
          \/ /\ analysed = tickers
             /\ pc = "loop" /\ pc' = "done"
             /\ analysed' = analysed]_vars
    /\ <>(pc = "done" /\ analysed = tickers)

C20_Witness ==
    /\ scanner = "scan_market" /\ pc = "done"
    /\ tickers = <<"EEEE.JK", "FFFF.JK", "GGGG">>
    /\ analysed = tickers
    /\ results = <<>> /\ output = <<>>

\* C21: the records scan_market returns do not depend on the order of the
\* input tickers or on which other tickers are in the list: each ticker of the
\* list contributes the record computed from its own snapshot alone (or
\* nothing), so the returned records are a function of the multiset of tickers.
OwnRecord(t) == analyze_multibagger_potential(NewHunter, t, Market[t])

Qualifies(t) ==
    /\ ~OwnRecord(t).none
    /\ OwnRecord(t).multibagger_score >= NewHunter.min_score * 200

C21_OrderIndependent ==
    (scanner = "scan_market" /\ pc = "done") =>
        /\ \A k \in 1..Len(output) :
            /\ Qualifies(output[k].ticker)
            /\ output[k] = OwnRecord(output[k].ticker)
        /\ \A t \in Universe :
            Cardinality({k \in 1..Len(output) : output[k].ticker = t})
                = IF Qualifies(t) THEN Cardinality({i \in 1..Len(tickers) : tickers[i] = t})
                  ELSE 0

C21_Witness ==
    /\ scanner = "scan_market" /\ pc = "done"
    /\ tickers = <<"BBBB.JK", "DDDD.JK", "GGGG.JK">>
    /\ Len(output) = 2
    /\ output[1].ticker = "GGGG.JK" /\ output[2].ticker = "BBBB.JK"

\* C22: _calculate_growth_score is the clamped sum of three independent
\* ladders: revenue growth 35 (> 50%), 40 ((30%,50%]), 35 ((20%,30%]),
\* 20 ((10%,20%]) and 5 for every other known value, a growth of exactly 0% and
\* negative growth included; earnings growth 40 (> 40%), 35 (> 25%), 25 (> 15%),
\* else 10 for every other known value; quarterly revenue growth > 20% adds 20;
\* an absent metric contributes 0; the result is min(sum, 100).
RevenueLadder(g) ==
    IF g = Absent THEN 0
    ELSE IF g[1] > 50 THEN 35
    ELSE IF g[1] > 30 THEN 40
    ELSE IF g[1] > 20 THEN 35
    ELSE IF g[1] > 10 THEN 20
    ELSE 5

EarningsLadder(g) ==
    IF g = Absent THEN 0
    ELSE IF g[1] > 40 THEN 40
    ELSE IF g[1] > 25 THEN 35
    ELSE IF g[1] > 15 THEN 25
    ELSE 10

QuarterlyBonus(g) == IF g # Absent /\ g[1] > 20 THEN 20 ELSE 0

C22_AsStated ==
    Returned("_calculate_growth_score") =>
        call.out = Min(RevenueLadder(call.arg.revenueGrowth)
                       + EarningsLadder(call.arg.earningsGrowth)
                       + QuarterlyBonus(call.arg.revenueQuarterlyGrowth), 100)

\* C23: in _calculate_valuation_score the PEG contribution is 50 for every
\* known PEG below 0.5, 45 for [0.5,1), 35 for [1,1.5), 25 for [1.5,2), 10 for
\* PEG >= 2, and 20 only when PEG is absent; over known PEG values the
\* contribution is non-increasing as PEG rises.
\* (the three rules sum to at most 100, so the contribution of the PEG rule is
\* the score less the score of the other two rules)
PegContribution(info) ==
    calculate_valuation_score(info)
        - (calculate_valuation_score([info EXCEPT !.pegRatio = Absent]) - 20)

PegLadder(peg) ==
    IF peg = Absent THEN 20
    ELSE IF peg[1] < 5 THEN 50
    ELSE IF peg[1] < 10 THEN 45
    ELSE IF peg[1] < 15 THEN 35
    ELSE IF peg[1] < 20 THEN 25
    ELSE 10

C23_AsStated ==
    Returned("_calculate_valuation_score") =>
        /\ call.out - (calculate_valuation_score([call.arg EXCEPT !.pegRatio = Absent]) - 20)
            = PegLadder(call.arg.pegRatio)
        /\ \A other \in ValuationArgs :
            (/\ call.arg.pegRatio # Absent /\ other.pegRatio # Absent
             /\ other.pegRatio[1] <= call.arg.pegRatio[1]
             /\ other.trailingPE = call.arg.trailingPE
             /\ other.priceToBook = call.arg.priceToBook)
                => PegContribution(other) >= PegContribution(call.arg)

\* C24: in _calculate_quality_score the debt facet contributes +20 when
\* debtToEquity is absent, and for a known debt-to-equity 25 below 30, 20 in
\* [30,50), 15 in [50,100) and 5 at 100 or above, so among known values a lower
\* debt-to-equity (exactly 0 included) never contributes fewer points than a
\* higher one.
DebtLadder(d) ==
    IF d = Absent THEN 20
    ELSE IF d[1] < 30 THEN 25
    ELSE IF d[1] < 50 THEN 20
    ELSE IF d[1] < 100 THEN 15
    ELSE 5

C24_AsStated ==
    Returned("_calculate_quality_score") =>
        call.out - (calculate_quality_score([call.arg EXCEPT !.debtToEquity = Absent]) - 20)
            = DebtLadder(call.arg.debtToEquity)

\* C25: the news sentiment score equals 50 + 40 * (pos - neg) / (pos + neg),
\* where pos and neg count, among at most the first 10 headlines, those with
\* strictly more positive than negative keyword hits and vice versa; it is 50
\* when pos + neg = 0 or there is no news, pos + neg <= 10 always, and the score
\* always lies in [10,90].
FirstTen(news) == 1..Min(10, Len(news.rows))

C25_NewsFormula ==
    Returned("_analyze_news_sentiment") =>
        LET news == call.arg
            pos == Cardinality({i \in FirstTen(news) : news.rows[i].pos > news.rows[i].neg})
            neg == Cardinality({i \in FirstTen(news) : news.rows[i].neg > news.rows[i].pos})
        IN /\ pos + neg <= 10
           /\ (news.kind # "ok" \/ pos + neg = 0) => call.out = 50 * NEWS_UNIT
           /\ (news.kind = "ok" /\ pos + neg > 0) =>
                call.out * (pos + neg)
                    = 50 * NEWS_UNIT * (pos + neg) + 40 * NEWS_UNIT * (pos - neg)
           /\ 10 * NEWS_UNIT <= call.out /\ call.out <= 90 * NEWS_UNIT

C25_Witness ==
    /\ Returned("_analyze_news_sentiment")
    /\ call.arg.kind = "ok" /\ Len(call.arg.rows) = 11
    /\ \A i \in 1..10 : call.arg.rows[i] = [pos |-> 0, neg |-> 1]
    /\ call.arg.rows[11] = [pos |-> 1, neg |-> 0]
    /\ call.out = 10 * NEWS_UNIT

\* C26: short price history is never fatal in analyze_multibagger_potential and
\* the affected rule is treated as absent: with fewer than 126 rows the 6-month
\* momentum rule contributes 0 and STRONG_MOMENTUM is not emitted, with fewer
\* than 63 rows the 3-month rule contributes 0, with fewer than 200 rows the
\* MA200 rule contributes 0, while the remaining rules still apply and a result
\* record is produced; with fewer than 50 rows the call returns no result.
\* a full-length history on which the rules the short history cannot feed
\* contribute nothing
ShortRulesSilenced(hist) ==
    [hist EXCEPT !.len = 250,
                 !.momentum_6m = IF hist.len < 126 THEN 0 ELSE @,
                 !.momentum_3m = IF hist.len < 63 THEN 0 ELSE @,
                 !.price_vs_ma200 = IF hist.len < 200 THEN 100 ELSE @]

C26_ShortHistory ==
    Returned("analyze_multibagger_potential") =>
        LET hist == call.arg.hist
        IN /\ hist.len < 50 => call.out = None
           /\ (hist.len >= 50 /\ call.arg.fetch = "ok") =>
                /\ ~call.out.none
                /\ call.out.momentum_score
                    = calculate_momentum_score(ShortRulesSilenced(hist))
                /\ hist.len < 126 =>
                    \A k \in DOMAIN call.out.catalysts :
                        call.out.catalysts[k] # "STRONG_MOMENTUM"

C26_Witness ==
    /\ Returned("analyze_multibagger_potential")
    /\ call.arg.fetch = "ok"
    /\ call.arg.hist.len = 62
    /\ call.arg.hist.momentum_6m = 60 /\ call.arg.hist.momentum_3m = 35
    /\ call.arg.hist.price_vs_ma200 = 110
    /\ ~call.out.none
    /\ call.out.momentum_score = 20 + 15

\* C27: every record returned by scan_market has a return_potential other than
\* the bottom bucket, and its bucket equals the decision table applied to the
\* reported (2-decimal rounded) multibagger_score and num_catalysts, although
\* the threshold filter reads the rounded score and the bucket is computed from
\* the unrounded one.  (The unrounded score is a multiple of 0.025, so rounding
\* to 0.01 never carries it across 70, 75, 80 or 85.)
C27_BucketOfReported ==
    (scanner = "scan_market") =>
        \A k \in 1..Len(results) :
            /\ results[k].return_potential # "50-100% (modest multibagger)"
            /\ results[k].return_potential
                = estimate_return_potential(results[k].multibagger_score,
                                            results[k].num_catalysts)
            /\ pc = "done" => \E j \in 1..Len(output) : output[j] = results[k]

C27_Witness ==
    /\ scanner = "scan_market" /\ pc = "done"
    /\ tickers = <<"IIII.JK", "GGGG.JK", "DDDD.JK">>
    /\ Len(output) = 2
    /\ output[1].ticker = "GGGG.JK" /\ output[1].multibagger_score = 95 * 200 + 24
    /\ output[2].ticker = "IIII.JK" /\ output[2].multibagger_score = 70 * 200
    /\ output[2].return_potential = "100-200% (2-3 bagger)"

\* C28 (as stated): the sentiment composite always lies in [29, 81.5]; the
\* analyst score takes values only in {30,40,50,55,70,85}, the news score lies
\* in [10,90], the institutional score in {40,50,55,65,75} and the insider score
\* in {40,45,50,60,70}; 'VERY BEARISH' is produced only when all four
\* sub-scores are at their minimum.
SubScoreRanges ==
    /\ call.arg[1] \in {v * NEWS_UNIT : v \in {30, 40, 50, 55, 70, 85}}
    /\ 10 * NEWS_UNIT <= call.arg[2] /\ call.arg[2] <= 90 * NEWS_UNIT
    /\ call.arg[3] \in {v * NEWS_UNIT : v \in {40, 50, 55, 65, 75}}
    /\ call.arg[4] \in {v * NEWS_UNIT : v \in {40, 45, 50, 60, 70}}
    /\ 2900 * NEWS_UNIT <= call.out.score /\ call.out.score <= 8150 * NEWS_UNIT

C28_AsStated ==
    Returned("SentimentAnalyzer.analyze.total_score") =>
        /\ SubScoreRanges
        /\ call.out.sentiment = "VERY BEARISH" =>
            call.arg = <<30 * NEWS_UNIT, 10 * NEWS_UNIT, 40 * NEWS_UNIT, 40 * NEWS_UNIT>>

\* C28 (amended): the ranges hold; 'VERY BEARISH' is produced exactly when the
\* analyst, news and institutional scores are at their minimum and the insider
\* score is 40 or 45 (composite 29 or 29.75); a composite of 80 or more is
\* reached exactly when the analyst, news and institutional scores are at their
\* maximum and the insider score is 60 or 70.
C28_SentimentExtremes ==
    Returned("SentimentAnalyzer.analyze.total_score") =>
        /\ SubScoreRanges
        /\ call.out.sentiment = "VERY BEARISH" <=>
            /\ call.arg[1] = 30 * NEWS_UNIT /\ call.arg[2] = 10 * NEWS_UNIT
            /\ call.arg[3] = 40 * NEWS_UNIT
            /\ call.arg[4] \in {40 * NEWS_UNIT, 45 * NEWS_UNIT}
        /\ call.out.score >= 8000 * NEWS_UNIT <=>
            /\ call.arg[1] = 85 * NEWS_UNIT /\ call.arg[2] = 90 * NEWS_UNIT
            /\ call.arg[3] = 75 * NEWS_UNIT
            /\ call.arg[4] \in {60 * NEWS_UNIT, 70 * NEWS_UNIT}

C28_Witness ==
    /\ Returned("SentimentAnalyzer.analyze.total_score")
    /\ call.arg = <<30 * NEWS_UNIT, 10 * NEWS_UNIT, 40 * NEWS_UNIT, 45 * NEWS_UNIT>>
    /\ call.out.score = 2975 * NEWS_UNIT
    /\ call.out.sentiment = "VERY BEARISH"

\* C29: in the multibagger growth, valuation, quality and momentum scorers the
\* rule points sum to at most 100, so the final min(score, 100) never changes
\* the value; only the catalyst scorer (up to 30 + 30 + 20 + 15 + 20 = 115) can
\* exceed 100 before the min; no multibagger scorer goes below 0.
C29_MinIsIdle ==
    /\ Returned("_calculate_growth_score") =>
        /\ call.out = calculate_growth_points(call.arg)
        /\ 0 <= call.out /\ call.out <= 100
    /\ Returned("_calculate_valuation_score") =>
        /\ call.out = calculate_valuation_points(call.arg)
        /\ 0 <= call.out /\ call.out <= 100
    /\ Returned("_calculate_quality_score") =>
        /\ call.out = calculate_quality_points(call.arg)
        /\ 0 <= call.out /\ call.out <= 100
    /\ Returned("_calculate_momentum_score") =>
        /\ call.out = calculate_momentum_points(call.arg)
        /\ 0 <= call.out /\ call.out <= 100
    /\ Returned("_calculate_size_score") => 0 <= call.out /\ call.out <= 100
    /\ Returned("_calculate_catalyst_score") =>
        LET points == calculate_catalyst_points(call.arg.h, call.arg.info, call.arg.hist)
        IN /\ 0 <= points /\ points <= 2 * 115
           /\ call.out = Min(points, 2 * 100)

C29_Witness ==
    /\ Returned("_calculate_growth_score")
    /\ calculate_growth_points(call.arg) = 100
    /\ call.out = 100

=============================================================================
